---- MODULE Spec2Model ----
(***************************************************************************)
(* Pipeline orchestration engine of the vocal-processing backend:          *)
(*   - services/orchestrator.py  (PipelineOrchestrator)                    *)
(*   - workers/tasks.py          (Celery tasks pipeline.full/pipeline.step)*)
(*   - api/routes/pipeline.py, api/routes/batch.py (job triggers)          *)
(*   - api/websocket.py          (progress channel + ConnectionManager)    *)
(*                                                                         *)
(* Persistence follows the SQLAlchemy session the code uses                *)
(* (database.py: expire_on_commit=False): every session holds its own      *)
(* in-memory Project, never refreshed by a commit; a commit UPDATEs only   *)
(* the columns whose in-memory value differs from the value the session    *)
(* last loaded or committed.                                               *)
(***************************************************************************)
EXTENDS Integers, Sequences, FiniteSets, TLC

VARIABLES
    db,          \* projects table: job id -> row, NoJob (never inserted) or Deleted
    queue,       \* Celery broker queue: sequence of tasks
    requests,    \* number of trigger requests accepted so far
    req,         \* the HTTP trigger request between its enqueue and its commit
    pc,          \* worker -> "idle" | "loop" | "step" | "handler" | "ended"
    task,        \* worker -> the task it executes
    project,     \* worker -> in-memory Project of its session, as of its last commit
    idx,         \* worker -> position in PIPELINE_ORDER (full run)
    calls,       \* worker -> handlers invoked by its run, in order
    published,   \* worker -> events published by its run, in order
    result,      \* worker -> how its run ended
    connections, \* ConnectionManager.connections: job id -> list of websockets
    endpoint,    \* websocket -> the websocket_endpoint call that serves it
    sub,         \* the relay's subscriber task (_subscriber_task)
    channel,     \* pub/sub messages the subscriber has not read yet
    delivery,    \* the send_to_project call in progress
    published_n, \* number of events published on the progress channel so far
    received,    \* websocket -> payloads sent to it, in order
    transport,   \* whether Redis takes what the workers publish: "up" or "down"
    files,       \* project directory: file name -> what the file holds
    audio_format,\* Project.audio_format as persisted
    sep,         \* the execution of _run_separation under way, and the count
    stage,       \* one execution of run_step, report by report
    batch,       \* the batch_start_pipeline call under way: its loop and lists
    response,    \* the answer a route has just given, until it is sent
    subscriber_tasks \* number of _redis_subscriber tasks that have not ended

ovars == <<db, queue, requests, req, pc, task, project, idx, calls, published,
           result>>
rvars == <<connections, endpoint, sub, channel, delivery, published_n, received,
           transport>>
fvars == <<files, audio_format, sep, stage>>
avars == <<batch, response>>
vars == <<ovars, rvars, fvars, avars, subscriber_tasks>>

----------------------------------------------------------------------------
(* Bounds of the model *)

MaxRequests == 2         \* trigger requests (start, step, batch, quick-start)
MaxRuns == 3             \* executions of one stage handler on one job
MaxEvents == 3           \* events published on the progress channel (relay)
PoolSize == 1            \* worker processes that take tasks under Spec

(* Program constants *)

max_concurrent_jobs == 2 \* config.py; tasks.py worker_concurrency

Jobs == {"j1"}              \* the job the single-job specifications follow
ProjectIds == {"j1", "j2"}   \* Project.id values (uuid4) the table can hold
\* Fault variant of Pool: worker_concurrency left at the number of CPUs
PoolOfCpus == 1..(max_concurrent_jobs + 1)
Pool == 1..max_concurrent_jobs \* the processes of the Celery worker pool
Workers == 1..PoolSize         \* the processes that take tasks under Spec

NoValue == "None"
NoJob == [absent |-> TRUE]
Deleted == [absent |-> TRUE, deleted |-> TRUE]

\* db.get returns a row for the id (else the routes answer 404)
Found(row) == "absent" \notin DOMAIN row

\* Fault variant of Resolved: the result of db.get is not looked at
ResolvedAlways(row) == TRUE

\* orchestrator.py `if not project: return` (lines 72-74) and tasks.py
\* `if project:` (line 79)
Resolved(row) == Found(row)
NoReq == [kind |-> "none"]
NoTask == [kind |-> "none"]

----------------------------------------------------------------------------
(* models/project.py *)

ProjectStatus == {"created", "uploading", "analyzing", "melody_ready",
                  "synthesizing", "refining", "mixing", "completed", "error"}

PipelineStep == {"upload", "separation", "analysis", "melody", "synthesis",
                 "refinement", "mix"}

Engines == {"diffsinger", "acestep"}

\* Text of the exceptions a collaborator raises: str(e)
ErrTexts == {"", "engine unavailable"}

Fields == {"status", "current_step", "progress", "error_message", "has_vocals",
           "synthesis_engine", "instrumental_filename", "bpm", "lyrics"}

\* A freshly inserted row: the column defaults of Project
Project(engine, hv, lyr) ==
    [status |-> "created", current_step |-> NoValue, progress |-> 0,
     error_message |-> <<>>, has_vocals |-> hv, synthesis_engine |-> engine,
     instrumental_filename |-> FALSE, bpm |-> FALSE, lyrics |-> lyr]

\* await db.commit(): UPDATE of the columns that changed in this session
Commit(row, mem, base) ==
    [f \in Fields |-> IF mem[f] # base[f] THEN mem[f] ELSE row[f]]

----------------------------------------------------------------------------
(* api/websocket.py: publish_progress *)

Event(step, percent, status) == [step |-> step, progress |-> percent, status |-> status]

\* Fault variant of PublishProgress: no except clause around r.publish
PublishProgressUnguarded(t, events) ==
    [sent |-> IF t = "up" THEN events ELSE <<>>,
     raised |-> t = "down" /\ events # <<>>]

\* publish_progress, lines 49-53, called for each of the events in turn:
\* what Redis takes, and whether the caller sees an exception. With Redis
\* down r.publish raises, and `except Exception` logs it and returns.
PublishProgress(t, events) ==
    [sent |-> IF t = "up" THEN events ELSE <<>>,
     raised |-> FALSE]

----------------------------------------------------------------------------
(* services/orchestrator.py *)

\* Fault variant of PIPELINE_ORDER: MELODY ahead of ANALYSIS
PIPELINE_ORDER_MelodyFirst ==
    <<"upload", "separation", "melody", "analysis", "synthesis", "refinement", "mix">>

PIPELINE_ORDER == <<"upload", "separation", "analysis", "melody", "synthesis",
                    "refinement", "mix">>

\* engine = project.synthesis_engine or "diffsinger"
EngineOf(p) == IF p.synthesis_engine = NoValue THEN "diffsinger" ELSE p.synthesis_engine

\* Fault variant of Skipped: SEPARATION runs whatever has_vocals is
SkippedIgnoringVocals(step, p) ==
    \/ step = "upload"
    \/ EngineOf(p) = "acestep" /\ step = "melody"

\* Fault variant of Skipped: MELODY runs whatever the engine is
SkippedIgnoringEngine(step, p) ==
    \/ step = "upload"
    \/ step = "separation" /\ ~p.has_vocals

\* The three `continue` branches at the head of the loop of run_full_pipeline
Skipped(step, p) ==
    \/ step = "upload"
    \/ step = "separation" /\ ~p.has_vocals
    \/ EngineOf(p) = "acestep" /\ step = "melody"

\* Position of the first stage at or after i that the loop executes
\* (Len(PIPELINE_ORDER) + 1 when the loop is exhausted)
RECURSIVE NextIdx(_, _)

\* Fault variant of NextIdx: the loop resumes at the current_step of the job
NextIdxResuming(i, p) ==
    IF i > Len(PIPELINE_ORDER) THEN i
    ELSE IF \/ Skipped(PIPELINE_ORDER[i], p)
            \/ \E k \in (i + 1)..Len(PIPELINE_ORDER) : PIPELINE_ORDER[k] = p.current_step
         THEN NextIdx(i + 1, p)
         ELSE i

NextIdx(i, p) ==
    IF i > Len(PIPELINE_ORDER) THEN i
    ELSE IF Skipped(PIPELINE_ORDER[i], p) THEN NextIdx(i + 1, p)
    ELSE i

\* Fault variant of ErrorMessage: the text of the exception alone
ErrorMessageText(step, e) == IF e = "" THEN <<>> ELSE <<e>>

\* f"Erro no step {step.value}: {str(e)}", as the pieces it concatenates
ErrorMessage(step, e) ==
    <<"Erro no step ", step, ": ">> \o (IF e = "" THEN <<>> ELSE <<e>>)

\* f"Erro na análise: {str(e)}" (quick_start, upload)
AnalysisErrorMessage(e) ==
    <<"Erro na analise: ">> \o (IF e = "" THEN <<>> ELSE <<e>>)

\* One progress(percent, msg) call of a handler, with the assignments to the
\* Project the handler makes right before it
Report(percent) == [progress |-> percent, status |-> NoValue, bpm |-> FALSE]
ReportSet(percent, status, bpm) == [progress |-> percent, status |-> status, bpm |-> bpm]

\* services/demucs.py: the progress_fn calls of DemucsService._separate_sync
DemucsReports == <<10, 20, 70, 85, 95>>

\* _run_separation: progress(5), demucs_progress passes pct through, progress(95)
SeparationScript ==
    <<Report(5)>> \o [i \in 1..Len(DemucsReports) |-> Report(DemucsReports[i])]
                  \o <<Report(95)>>

\* _run_analysis
AnalysisScript ==
    <<Report(10), Report(20), Report(85), ReportSet(95, "melody_ready", TRUE)>>

\* _run_melody: progress(75) only `if project.lyrics`
MelodyScript(p) ==
    <<Report(5), Report(15), Report(60)>>
        \o (IF p.lyrics THEN <<Report(75)>> ELSE <<>>) \o <<Report(95)>>

\* Fault variant of AcestepDemucs: the percent of demucs added unscaled
AcestepDemucsUnscaled(pct) == 70 + pct

\* Fault variant of AcestepDemucs: the percent of demucs passed through
AcestepDemucsRaw(pct) == pct

\* _run_synthesis, acestep branch: lambda pct, msg: progress(70 + pct // 5, ...)
AcestepDemucs(pct) == 70 + (pct \div 5)

\* _run_synthesis: status SYNTHESIZING first, then the branch of the engine
SynthesisScript(p) ==
    <<ReportSet(5, "synthesizing", FALSE)>> \o
    (CASE EngineOf(p) = "diffsinger" -> <<Report(15), Report(30), Report(90)>>
       [] EngineOf(p) = "acestep" ->
            <<Report(15), Report(30), Report(70)>>
            \o [i \in 1..Len(DemucsReports) |-> Report(AcestepDemucs(DemucsReports[i]))]
            \o <<Report(90)>>
       [] OTHER -> <<>>)
    \o <<Report(95)>>

\* _run_refinement: status REFINING, early return when vocals_raw.wav is missing
RefinementScript(br) ==
    IF br = "bypass" THEN <<ReportSet(50, "refining", FALSE)>>
    ELSE <<ReportSet(10, "refining", FALSE), Report(30), Report(90)>>

\* _run_mix: status MIXING, early return when the vocal or instrumental is missing
MixScript(br) ==
    IF br = "bypass" THEN <<ReportSet(50, "mixing", FALSE)>>
    ELSE <<ReportSet(10, "mixing", FALSE), Report(30), Report(50), Report(90)>>

\* step_handlers of run_step: the reports the handler of `step` makes;
\* UPLOAD has no handler
HandlerScript(step, p, br) ==
    CASE step = "separation" -> SeparationScript
      [] step = "analysis" -> AnalysisScript
      [] step = "melody" -> MelodyScript(p)
      [] step = "synthesis" -> SynthesisScript(p)
      [] step = "refinement" -> RefinementScript(br)
      [] step = "mix" -> MixScript(br)
      [] OTHER -> <<>>

HasHandler(step) == step # "upload"

\* Paths a handler can take depending on the artifacts on disk
Branches(step) ==
    IF step \in {"refinement", "mix"} THEN {"bypass", "full"} ELSE {"full"}

\* The stage a worker is executing
CurStep(w) ==
    IF task[w].kind = "full" THEN PIPELINE_ORDER[idx[w]] ELSE task[w].step

\* Fault variant of StepStarted: progress is not reset
StepStartedKeepProgress(p, step) == [p EXCEPT !.current_step = step]

\* Fault variant of StepStarted: current_step is left as it was
StepStartedProgressOnly(p, step) == [p EXCEPT !.progress = 0]

\* run_step, lines 147-149: current_step = step, progress = 0
StepStarted(p, step) == [p EXCEPT !.current_step = step, !.progress = 0]

\* report_progress: project.progress = percent (in memory), after the
\* assignments the handler made before the call
Reported(p, r) ==
    [p EXCEPT !.progress = r.progress,
              !.status = IF r.status = NoValue THEN @ ELSE r.status,
              !.bpm = IF r.bpm THEN TRUE ELSE @]

\* Fault variant of Failed: the status alone
FailedWithoutMessage(p, step, e) == [p EXCEPT !.status = "error"]

\* run_full_pipeline, lines 115-116
Failed(p, step, e) ==
    [p EXCEPT !.status = "error", !.error_message = ErrorMessage(step, e)]

\* Fault variant of StageEvents: the completed event ahead of the handler's
\* reports (run_step not awaited)
StageEventsUnawaited(step, events) == <<Event(step, 100, "completed")>> \o events

\* run_full_pipeline, lines 109-113: the events of the awaited run_step, then
\* the completed event of the stage
StageEvents(step, events) == events \o <<Event(step, 100, "completed")>>

\* Fault variant of TerminalEvent: the completed event whatever the outcome
TerminalEventCompleted(outcome) == Event("completed", 100, "completed")

\* run_full_pipeline, lines 118-121 and 133-136: the last event of a run
TerminalEvent(outcome) ==
    IF outcome = "error" THEN Event("error", 0, "error")
    ELSE Event("completed", 100, "completed")

\* Fault variant of Completed: the message of an earlier failure is reset
CompletedClearingMessage(p) ==
    [p EXCEPT !.status = "completed", !.progress = 100, !.error_message = <<>>]

\* run_full_pipeline, lines 130-131
Completed(p) == [p EXCEPT !.status = "completed", !.progress = 100]

----------------------------------------------------------------------------
(* workers/tasks.py and the orchestrator's control flow, one worker each.  *)
(* The body of a handler touches only the worker's own session and the     *)
(* progress channel, so it is one step together with the commit (or the    *)
(* except clause) that follows it.                                         *)

FullTask(j) == [kind |-> "full", job |-> j, step |-> NoValue]
StepTask(j, step) == [kind |-> "step", job |-> j, step |-> step]

wvars == <<pc, task, project, idx, calls, published, result>>

\* The Project after the first n reports of a handler
RECURSIVE AfterReports(_, _, _)
AfterReports(p, script, n) ==
    IF n = 0 THEN p ELSE Reported(AfterReports(p, script, n - 1), script[n])

\* The events the first n reports of a handler publish
ReportEvents(step, script, n) ==
    [i \in 1..n |-> Event(step, script[i].progress, "processing")]

\* The points at which a handler is let to raise: before its first report
\* and after its last one
RaisePoints(script) == {0, Len(script)}

\* A worker takes the next task of the broker and loads the Project
\* (tasks.py run_full_pipeline/run_pipeline_step; db.get). A missing row ends
\* the task at once.
TakeTask(w) ==
    /\ pc[w] = "idle"
    /\ \A v \in Pool : v < w => pc[v] # "idle"
    /\ queue # <<>>
    /\ LET t == Head(queue)
           row == db[t.job]
       IN /\ queue' = Tail(queue)
          /\ task' = [task EXCEPT ![w] = t]
          /\ IF ~Resolved(row)
             THEN /\ pc' = [pc EXCEPT ![w] = "ended"]
                  /\ result' = [result EXCEPT ![w] = "not_found"]
                  /\ UNCHANGED project
             ELSE /\ pc' = [pc EXCEPT ![w] = IF t.kind = "full" THEN "loop" ELSE "step"]
                  /\ result' = [result EXCEPT ![w] = "running"]
                  /\ project' = [project EXCEPT ![w] = row]
    /\ UNCHANGED <<db, requests, req, idx, calls, published, rvars, fvars, avars, subscriber_tasks>>

\* run_full_pipeline, lines 82-109, and run_step, lines 147-164: the loop
\* passes the skipped stages, publishes the start event of the next stage,
\* and run_step commits current_step/progress and invokes the handler
StageStart(w) ==
    /\ pc[w] = "loop"
    /\ LET k == NextIdx(idx[w], project[w])
           j == task[w].job
       IN /\ k <= Len(PIPELINE_ORDER)
          /\ LET step == PIPELINE_ORDER[k]
                 pub == PublishProgress(transport, <<Event(step, 0, "processing")>>)
                 p == IF pub.raised THEN Failed(project[w], step, "publish")
                      ELSE StepStarted(project[w], step)
             IN /\ idx' = [idx EXCEPT ![w] = k]
                /\ published' = [published EXCEPT ![w] = @ \o pub.sent]
                /\ project' = [project EXCEPT ![w] = p]
                /\ db' = [db EXCEPT ![j] = Commit(@, p, project[w])]
                /\ IF pub.raised
                   THEN \* line 105 is inside the try: lines 114-128
                        /\ pc' = [pc EXCEPT ![w] = "ended"]
                        /\ result' = [result EXCEPT ![w] = "error"]
                        /\ UNCHANGED calls
                   ELSE /\ calls' = [calls EXCEPT ![w] = Append(@, step)]
                        /\ pc' = [pc EXCEPT ![w] = "handler"]
                        /\ UNCHANGED result
    /\ UNCHANGED <<queue, requests, req, task, rvars, fvars, avars, subscriber_tasks>>

\* tasks.py run_pipeline_step, line 81, and run_step, lines 147-164: a
\* single-step task enters run_step directly
StepTaskStart(w) ==
    /\ pc[w] = "step"
    /\ LET step == task[w].step
           j == task[w].job
           p == StepStarted(project[w], step)
       IN /\ project' = [project EXCEPT ![w] = p]
          /\ db' = [db EXCEPT ![j] = Commit(@, p, project[w])]
          /\ calls' = [calls EXCEPT ![w] =
                          IF HasHandler(step) THEN Append(@, step) ELSE @]
          /\ pc' = [pc EXCEPT ![w] = "handler"]
    /\ UNCHANGED <<queue, requests, req, task, idx, published, result, rvars, fvars, avars, subscriber_tasks>>

\* The handler makes all its reports and returns: run_step, lines 166-167,
\* then, in a full run, the completed event of the stage (lines 110-113); a
\* single-step task ends
HandlerReturn(w) ==
    /\ pc[w] = "handler"
    /\ \E br \in Branches(CurStep(w)) :
         LET j == task[w].job
             step == CurStep(w)
             script == HandlerScript(step, project[w], br)
             p == [AfterReports(project[w], script, Len(script)) EXCEPT !.progress = 100]
             events == ReportEvents(step, script, Len(script))
         IN /\ project' = [project EXCEPT ![w] = p]
            /\ db' = [db EXCEPT ![j] = Commit(@, p, project[w])]
            /\ IF task[w].kind = "full"
               THEN /\ published' = [published EXCEPT ![w] = @ \o
                           PublishProgress(transport, StageEvents(step, events)).sent]
                    /\ idx' = [idx EXCEPT ![w] = @ + 1]
                    /\ pc' = [pc EXCEPT ![w] = "loop"]
                    /\ UNCHANGED result
               ELSE /\ published' = [published EXCEPT ![w] = @ \o
                           PublishProgress(transport, events).sent]
                    /\ pc' = [pc EXCEPT ![w] = "ended"]
                    /\ result' = [result EXCEPT ![w] = "step_done"]
                    /\ UNCHANGED idx
    /\ UNCHANGED <<queue, requests, req, task, calls, rvars, fvars, avars, subscriber_tasks>>

\* The handler raises e after n reports. In a full run the except clause of
\* run_full_pipeline (lines 114-128) records the error and returns. In a
\* single-step task nothing catches it: it leaves run_step and the task.
HandlerRaise(w, e) ==
    /\ pc[w] = "handler"
    /\ HasHandler(CurStep(w))
    /\ LET j == task[w].job
           step == CurStep(w)
           script == HandlerScript(step, project[w], "full")
       IN \E n \in RaisePoints(script) :
              LET p == Failed(AfterReports(project[w], script, n), step, e)
                  events == ReportEvents(step, script, n)
              IN IF task[w].kind = "full"
                 THEN /\ project' = [project EXCEPT ![w] = p]
                      /\ db' = [db EXCEPT ![j] = Commit(@, p, project[w])]
                      /\ published' = [published EXCEPT ![w] = @ \o
                             PublishProgress(transport,
                                 Append(events, TerminalEvent("error"))).sent]
                      /\ result' = [result EXCEPT ![w] = "error"]
                 ELSE /\ published' = [published EXCEPT ![w] = @ \o
                             PublishProgress(transport, events).sent]
                      /\ result' = [result EXCEPT ![w] = "raised"]
                      /\ UNCHANGED <<project, db>>
    /\ pc' = [pc EXCEPT ![w] = "ended"]
    /\ UNCHANGED <<queue, requests, req, task, idx, calls, rvars, fvars, avars, subscriber_tasks>>

\* run_full_pipeline, lines 130-137: every stage is done
Finalize(w) ==
    /\ pc[w] = "loop"
    /\ NextIdx(idx[w], project[w]) > Len(PIPELINE_ORDER)
    /\ LET j == task[w].job
           p == Completed(project[w])
       IN /\ project' = [project EXCEPT ![w] = p]
          /\ db' = [db EXCEPT ![j] = Commit(@, p, project[w])]
    /\ published' = [published EXCEPT ![w] = @ \o
           PublishProgress(transport, <<TerminalEvent("completed")>>).sent]
    /\ result' = [result EXCEPT ![w] = "completed"]
    /\ pc' = [pc EXCEPT ![w] = "ended"]
    /\ UNCHANGED <<queue, requests, req, task, idx, calls, rvars, fvars, avars, subscriber_tasks>>

\* The task function returns (or fails) and the session is closed: the
\* worker is free for the next task
TaskDone(w) ==
    /\ pc[w] = "ended"
    /\ pc' = [pc EXCEPT ![w] = "idle"]
    /\ task' = [task EXCEPT ![w] = NoTask]
    /\ project' = [project EXCEPT ![w] = NoJob]
    /\ idx' = [idx EXCEPT ![w] = 1]
    /\ calls' = [calls EXCEPT ![w] = <<>>]
    /\ published' = [published EXCEPT ![w] = <<>>]
    /\ result' = [result EXCEPT ![w] = "none"]
    /\ UNCHANGED <<db, queue, requests, req, rvars, fvars, avars, subscriber_tasks>>

----------------------------------------------------------------------------
(* api/routes: the job triggers and the requests that create a job.        *)
(* A trigger enqueues first and commits afterwards (pipeline.py lines      *)
(* 40-52, 96-100, 253-265; batch.py lines 61-64): req holds the request    *)
(* between the two.                                                        *)

tvars == <<db, queue, requests, req>>

Request(kind, j, step, mem, base) ==
    [kind |-> kind, job |-> j, step |-> step, project |-> mem, committed |-> base]

\* pipeline_queued of start_pipeline and quick_start (lines 41-47, 254-260)
Queued(r, queued) ==
    [f \in DOMAIN r \cup {"queued"} |-> IF f = "queued" THEN queued ELSE r[f]]

\* The statuses start_pipeline and batch_start refuse (409 / skipped)
RunningStatuses == {"synthesizing", "refining", "mixing"}

\* step_prerequisites of run_pipeline_step: the fields that must be set
Prerequisite(step, p) ==
    CASE step = "analysis" -> p.instrumental_filename
      [] step = "melody" -> p.bpm
      [] step = "synthesis" -> p.lyrics
      [] OTHER -> TRUE

\* projects.py create_project: has_vocals of the request is not passed on
CreateProject(j, engine) ==
    /\ db[j] = NoJob
    /\ db' = [db EXCEPT ![j] = Project(engine, FALSE, FALSE)]
    /\ UNCHANGED <<queue, requests, req, wvars, rvars, fvars, avars, subscriber_tasks>>

\* projects.py update_project, before the pipeline is first triggered
UpdateProject(j) ==
    /\ Found(db[j])
    /\ requests = 0
    /\ \/ db' = [db EXCEPT ![j].lyrics = TRUE]
       \/ db' = [db EXCEPT ![j].synthesis_engine = NoValue]
    /\ UNCHANGED <<queue, requests, req, wvars, rvars, fvars, avars, subscriber_tasks>>

\* audio.py upload: the first upload of the instrumental with its
\* synchronous analysis
UploadInstrumental(j) ==
    /\ Found(db[j])
    /\ ~db[j].instrumental_filename
    /\ \/ db' = [db EXCEPT ![j].instrumental_filename = TRUE,
                           ![j].status = "melody_ready",
                           ![j].current_step = "melody",
                           ![j].progress = 100,
                           ![j].bpm = TRUE]
       \/ \E e \in ErrTexts :
            db' = [db EXCEPT ![j].instrumental_filename = TRUE,
                             ![j].status = "error",
                             ![j].current_step = "analysis",
                             ![j].error_message = AnalysisErrorMessage(e)]
    /\ UNCHANGED <<queue, requests, req, wvars, rvars, fvars, avars, subscriber_tasks>>

\* pipeline.py start_pipeline, lines 28-47: guards, then the enqueue, which
\* may fail (the exception is swallowed)
StartPipeline(j) ==
    /\ req = NoReq
    /\ requests < MaxRequests
    /\ Found(db[j])
    /\ db[j].instrumental_filename
    /\ db[j].status \notin RunningStatuses
    /\ requests' = requests + 1
    /\ \E queued \in BOOLEAN :
         /\ queue' = IF queued THEN Append(queue, FullTask(j)) ELSE queue
         /\ req' = Queued(Request("start", j, NoValue, db[j], db[j]), queued)
    /\ UNCHANGED <<db, wvars, rvars, fvars, avars, subscriber_tasks>>

\* pipeline.py run_pipeline_step, lines 69-96
RunPipelineStep(j, step) ==
    /\ req = NoReq
    /\ requests < MaxRequests
    /\ Found(db[j])
    /\ Prerequisite(step, db[j])
    /\ requests' = requests + 1
    /\ queue' = Append(queue, StepTask(j, step))
    /\ req' = Request("step", j, step, db[j], db[j])
    /\ UNCHANGED <<db, wvars, rvars, fvars, avars, subscriber_tasks>>

\* batch.py batch_start_pipeline, lines 43-61, for one id of the batch
BatchStart(j) ==
    /\ req = NoReq
    /\ requests < MaxRequests
    /\ Found(db[j])
    /\ db[j].instrumental_filename
    /\ db[j].status \notin RunningStatuses
    /\ requests' = requests + 1
    /\ queue' = Append(queue, FullTask(j))
    /\ req' = Request("batch", j, NoValue, db[j], db[j])
    /\ UNCHANGED <<db, wvars, rvars, fvars, avars, subscriber_tasks>>

\* pipeline.py quick_start, lines 206-260: insert the Project, analyse the
\* upload; on failure commit ERROR (lines 242-246), else enqueue
QuickStart(j, engine, hv) ==
    /\ req = NoReq
    /\ requests < MaxRequests
    /\ db[j] = NoJob
    /\ requests' = requests + 1
    /\ LET row == Project(engine, hv, TRUE)
           mem == [row EXCEPT !.instrumental_filename = TRUE]
       IN \/ \E e \in ErrTexts :
               /\ db' = [db EXCEPT ![j] =
                            [mem EXCEPT !.status = "error",
                                        !.error_message = AnalysisErrorMessage(e)]]
               /\ UNCHANGED <<queue, req>>
          \/ /\ db' = [db EXCEPT ![j] = row]
             /\ \E queued \in BOOLEAN :
                  /\ queue' = IF queued THEN Append(queue, FullTask(j)) ELSE queue
                  /\ req' = Queued(Request("quick", j, NoValue,
                                           [mem EXCEPT !.bpm = TRUE], row), queued)
    /\ UNCHANGED <<wvars, rvars, fvars, avars, subscriber_tasks>>

\* projects.py delete_project: the row is deleted; its id is never used
\* again. Taken here while no request and no task of the job is under way.
DeleteProject(j) ==
    /\ req = NoReq
    /\ Found(db[j])
    /\ \A w \in Pool : task[w] # NoTask => task[w].job # j
    /\ db' = [db EXCEPT ![j] = Deleted]
    /\ UNCHANGED <<queue, requests, req, wvars, rvars, fvars, avars, subscriber_tasks>>

\* The assignments a trigger makes after the enqueue
Triggered(r) ==
    CASE r.kind \in {"start", "quick"} ->
            [r.project EXCEPT !.status = "analyzing", !.current_step = "analysis",
                              !.progress = 0]
      [] r.kind = "step" ->
            [r.project EXCEPT !.current_step = r.step, !.progress = 0]
      [] OTHER ->
            [r.project EXCEPT !.status = "analyzing", !.progress = 0]

\* The commit that ends the trigger request
TriggerCommit ==
    /\ req # NoReq
    /\ db' = [db EXCEPT ![req.job] = Commit(@, Triggered(req), req.committed)]
    /\ req' = NoReq
    /\ UNCHANGED <<queue, requests, wvars, rvars, fvars, avars, subscriber_tasks>>

----------------------------------------------------------------------------
(* api/websocket.py: the ConnectionManager and its Redis subscriber.       *)
(* Everything here runs on one asyncio event loop: the code between two    *)
(* awaits is one step. The publisher is any process that calls             *)
(* publish_progress.                                                       *)

Channels == {"j1", "j2"}     \* project ids observers connect to
Sockets == {"ws1", "ws2"}    \* WebSocket objects

NoEndpoint == [state |-> "none", job |-> NoValue, alive |-> FALSE]
NoDelivery == [job |-> NoValue]

\* publish_progress, lines 38-51: the payload of the seq-th publish and the
\* channel pipeline:progress:{project_id} it goes to
\* f"pipeline:progress:{project_id}" (line 51), as its segments between the
\* colons; a project id is a uuid4 string and holds no colon
ChannelName(j) == <<"pipeline", "progress", j>>

\* channel.split(":")[-1] (line 110)
ProjectIdOf(name) == name[Len(name)]

Message(j, seq) == [job |-> j, channel |-> ChannelName(j), seq |-> seq]

\* Fault variant of Registered: the connections of every project
RegisteredAnyJob(conns, j) ==
    LET Keys == {k \in Channels : k \in DOMAIN conns}
        F[K \in SUBSET Keys] ==
            IF K = {} THEN <<>>
            ELSE LET k == CHOOSE x \in K : TRUE IN conns[k] \o F[K \ {k}]
    IN F[Keys]

\* self.connections.get(project_id, [])
Registered(conns, j) == IF j \in DOMAIN conns THEN conns[j] ELSE <<>>

\* connect, line 66: self.connections[project_id].append(websocket), on a
\* defaultdict(list)
Register(conns, ws, j) ==
    [k \in DOMAIN conns \cup {j} |->
        IF k = j THEN Append(Registered(conns, j), ws) ELSE conns[k]]

\* Fault variant of Disconnect: the whole list of the job is dropped
DisconnectAll(conns, ws, j) == [k \in DOMAIN conns \ {j} |-> conns[k]]

\* Fault variant of Disconnect: the key is kept when its list gets empty
DisconnectKeepKey(conns, ws, j) ==
    IF j \notin DOMAIN conns THEN conns
    ELSE [conns EXCEPT ![j] = SelectSeq(conns[j], LAMBDA x : x # ws)]

\* Fault variant of Disconnect: the registry is left as it is
DisconnectNever(conns, ws, j) == conns

\* disconnect, lines 71-76: the list is rebuilt without the websocket and an
\* empty list drops the key
Disconnect(conns, ws, j) ==
    IF j \notin DOMAIN conns THEN conns
    ELSE LET rest == SelectSeq(conns[j], LAMBDA x : x # ws)
         IN IF rest = <<>>
            THEN [k \in DOMAIN conns \ {j} |-> conns[k]]
            ELSE [conns EXCEPT ![j] = rest]

\* Fault variant of Prune: the dead connections are left in the registry
PruneNone(conns, dead, j) == conns

\* send_to_project, lines 87-88: disconnect every dead connection
RECURSIVE Prune(_, _, _)
Prune(conns, dead, j) ==
    IF dead = <<>> THEN conns
    ELSE Prune(Disconnect(conns, Head(dead), j), Tail(dead), j)

\* Fault variant of Listen: the newest message first
ListenNewest(ch) == ch[Len(ch)]

\* pubsub.listen(): the next message the subscriber reads
Listen(ch) == Head(ch)

\* Fault variant of StartSubscriber: a task is created at every call
StartSubscriberAlways(ref, n) == n + 1

\* start_redis_subscriber, lines 92-93: a task is created only when
\* _subscriber_task is None; n is the number of tasks that have not ended
StartSubscriber(ref, n) == IF ref = "none" THEN n + 1 ELSE n

\* websocket_endpoint, lines 131-133: connect registers the websocket and
\* start_redis_subscriber creates the subscriber task if there is none. A
\* send_to_project that iterates the list of j sees the appended websocket
\* as long as it iterates the list object the registry holds.
Connect(ws, j) ==
    /\ endpoint[ws].state = "none"
    /\ endpoint' = [endpoint EXCEPT ![ws] = [state |-> "open", job |-> j, alive |-> TRUE]]
    /\ connections' = Register(connections, ws, j)
    /\ delivery' = IF delivery # NoDelivery /\ delivery.job = j /\ delivery.shared
                   THEN [delivery EXCEPT !.list = Append(@, ws)]
                   ELSE delivery
    /\ sub' = IF sub = "none" THEN "starting" ELSE sub
    /\ subscriber_tasks' = StartSubscriber(sub, subscriber_tasks)
    /\ UNCHANGED <<channel, published_n, received, ovars, transport, fvars, avars>>

\* The client goes away: from now on send_text and receive_text raise
ClientDrop(ws) ==
    /\ endpoint[ws].state = "open"
    /\ endpoint[ws].alive
    /\ endpoint' = [endpoint EXCEPT ![ws].alive = FALSE]
    /\ UNCHANGED <<connections, sub, channel, delivery, published_n, received, ovars, transport, fvars, avars, subscriber_tasks>>

\* websocket_endpoint, lines 139-142: receive_text raises and the handler
\* ends with manager.disconnect. The registry then holds a new list (or no
\* key) for the job: a send_to_project in progress keeps the old one.
EndpointEnd(ws) ==
    /\ endpoint[ws].state = "open"
    /\ ~endpoint[ws].alive
    /\ LET j == endpoint[ws].job
       IN /\ connections' = Disconnect(connections, ws, j)
          /\ delivery' = IF delivery # NoDelivery /\ delivery.job = j
                            /\ j \in DOMAIN connections
                         THEN [delivery EXCEPT !.shared = FALSE]
                         ELSE delivery
    /\ endpoint' = [endpoint EXCEPT ![ws].state = "ended"]
    /\ UNCHANGED <<sub, channel, published_n, received, ovars, transport, fvars, avars, subscriber_tasks>>

\* publish_progress, lines 49-53: Redis hands the message to the current
\* subscriptions; without a subscription, or when the publish raises, the
\* message is gone
Publish(j) ==
    /\ published_n < MaxEvents
    /\ published_n' = published_n + 1
    /\ \/ /\ sub \in {"listening", "sending"}
          /\ channel' = Append(channel, Message(j, published_n + 1))
       \/ UNCHANGED channel
    /\ UNCHANGED <<connections, endpoint, sub, delivery, received, ovars, transport, fvars, avars, subscriber_tasks>>

\* _redis_subscriber, lines 99-102: psubscribe succeeded
Subscribed ==
    /\ sub = "starting"
    /\ sub' = "listening"
    /\ UNCHANGED <<connections, endpoint, channel, delivery, published_n, received, ovars, transport, fvars, avars, subscriber_tasks>>

\* _redis_subscriber, lines 104-114: the loop reads the next message and
\* calls send_to_project with its project id and data
RelayReceive ==
    /\ sub = "listening"
    /\ channel # <<>>
    /\ LET m == Listen(channel)
       IN /\ channel' = SelectSeq(channel, LAMBDA x : x # m)
          /\ delivery' = [job |-> ProjectIdOf(m.channel), data |-> m,
                          list |-> Registered(connections, ProjectIdOf(m.channel)),
                          i |-> 1, dead |-> <<>>,
                          shared |-> ProjectIdOf(m.channel) \in DOMAIN connections]
    /\ sub' = "sending"
    /\ UNCHANGED <<connections, endpoint, published_n, received, ovars, transport, fvars, avars, subscriber_tasks>>

\* send_to_project, lines 82-86: await ws.send_text(data) for the next
\* websocket of the list; one that raises is noted as dead
SendText ==
    /\ sub = "sending"
    /\ delivery.i <= Len(delivery.list)
    /\ LET ws == delivery.list[delivery.i]
       IN IF endpoint[ws].alive
          THEN /\ received' = [received EXCEPT ![ws] = Append(@, delivery.data)]
               /\ delivery' = [delivery EXCEPT !.i = @ + 1]
          ELSE /\ delivery' = [delivery EXCEPT !.i = @ + 1, !.dead = Append(@, ws)]
               /\ UNCHANGED received
    /\ UNCHANGED <<connections, endpoint, sub, channel, published_n, ovars, transport, fvars, avars, subscriber_tasks>>

\* send_to_project, lines 87-88, and the return to the loop of the
\* subscriber
SendDone ==
    /\ sub = "sending"
    /\ delivery.i > Len(delivery.list)
    /\ connections' = Prune(connections, delivery.dead, delivery.job)
    /\ delivery' = NoDelivery
    /\ sub' = "listening"
    /\ UNCHANGED <<endpoint, channel, published_n, received, ovars, transport, fvars, avars, subscriber_tasks>>

\* _redis_subscriber, lines 117-120: the subscription raises; what Redis
\* publishes until the next psubscribe does not reach this process
SubscriberError ==
    /\ sub \in {"starting", "listening"}
    /\ sub' = "backoff"
    /\ channel' = <<>>
    /\ UNCHANGED <<connections, endpoint, delivery, published_n, received, ovars, transport, fvars, avars, subscriber_tasks>>

\* Fault variant of BackoffEnd: _subscriber_task is reset and no task is
\* created
BackoffEndNoRestart ==
    /\ sub = "backoff"
    /\ sub' = "none"
    /\ subscriber_tasks' = subscriber_tasks - 1
    /\ UNCHANGED <<connections, endpoint, channel, delivery, published_n, received, ovars, transport, fvars, avars>>

\* _redis_subscriber, lines 120-122: after the sleep, _subscriber_task =
\* None and start_redis_subscriber creates the next task; the task that
\* slept ends with that call, before any other code runs
BackoffEnd ==
    /\ sub = "backoff"
    /\ sub' = "starting"
    /\ subscriber_tasks' = StartSubscriber("none", subscriber_tasks) - 1
    /\ UNCHANGED <<connections, endpoint, channel, delivery, published_n, received, ovars, transport, fvars, avars>>

\* _redis_subscriber, lines 115-116: the task is cancelled; _subscriber_task
\* keeps the finished task, so nothing starts another one
Cancel ==
    /\ sub \in {"starting", "listening", "sending", "backoff"}
    /\ sub' = "cancelled"
    /\ subscriber_tasks' = subscriber_tasks - 1
    /\ channel' = <<>>
    /\ delivery' = NoDelivery
    /\ UNCHANGED <<connections, endpoint, published_n, received, ovars, transport, fvars, avars>>

\* Redis becomes unreachable for the workers, or reachable again
TransportChange ==
    /\ transport' = IF transport = "up" THEN "down" ELSE "up"
    /\ UNCHANGED <<ovars, connections, endpoint, sub, channel, delivery,
                   published_n, received, fvars, avars, subscriber_tasks>>

----------------------------------------------------------------------------
(* The artifacts of SEPARATION in the project directory. What a file holds  *)
(* is the number of separations between the uploaded audio and it: 0 is the *)
(* upload, 1 its separated instrumental track.                              *)

\* config.py allowed_audio_formats: "mp3" stands for every format but wav
Formats == {"mp3", "wav"}

NoFile == -1
FileNames == {"instrumental.mp3", "instrumental.wav", "original.mp3",
              "original.wav", "instrumental_separated.wav"}

\* f"instrumental.{project.audio_format}" and f"original.{project.audio_format}"
InstrumentalPath(fmt) == IF fmt = "wav" THEN "instrumental.wav" ELSE "instrumental.mp3"
OriginalPath(fmt) == IF fmt = "wav" THEN "original.wav" ELSE "original.mp3"

\* _run_separation, lines 192-194: input_path.rename(original_path), which
\* replaces a file already there
Renamed(fs, fmt) ==
    [fs EXCEPT ![OriginalPath(fmt)] = fs[InstrumentalPath(fmt)],
               ![InstrumentalPath(fmt)] = NoFile]

\* audio.py upload, lines 60-73: the upload is saved as instrumental.<ext>
SaveUpload(fmt) ==
    /\ audio_format = NoValue
    /\ files' = [files EXCEPT ![InstrumentalPath(fmt)] = 0]
    /\ audio_format' = fmt
    /\ UNCHANGED <<sep, stage, ovars, rvars, avars, subscriber_tasks>>

\* run_step invokes _run_separation, in a full run of a job with vocals or
\* as a single step: lines 180-181, with the audio_format the session loaded
SeparationBegin ==
    /\ sep.pc = "idle"
    /\ sep.runs < MaxRuns
    /\ audio_format # NoValue
    /\ sep' = [sep EXCEPT !.pc = "separate", !.fmt = audio_format, !.last = "none"]
    /\ UNCHANGED <<files, audio_format, stage, ovars, rvars, avars, subscriber_tasks>>

\* lines 190 and demucs.py 106-108: svc.separate reads the input and writes
\* instrumental_separated.wav; a missing input raises
Separate ==
    /\ sep.pc = "separate"
    /\ LET input == files[InstrumentalPath(sep.fmt)]
       IN IF input = NoFile
          THEN /\ sep' = [sep EXCEPT !.pc = "idle", !.runs = @ + 1, !.last = "raised"]
               /\ UNCHANGED files
          ELSE /\ files' = [files EXCEPT !["instrumental_separated.wav"] = input + 1]
               /\ sep' = [sep EXCEPT !.pc = "rename"]
    /\ UNCHANGED <<audio_format, stage, ovars, rvars, avars, subscriber_tasks>>

\* lines 192-194
Rename ==
    /\ sep.pc = "rename"
    /\ files' = Renamed(files, sep.fmt)
    /\ sep' = [sep EXCEPT !.pc = "copy"]
    /\ UNCHANGED <<audio_format, stage, ovars, rvars, avars, subscriber_tasks>>

\* lines 196-203: copy2 of the separated track to instrumental.wav, and
\* project.audio_format = "wav" in the session
Copy ==
    /\ sep.pc = "copy"
    /\ files' = [files EXCEPT !["instrumental.wav"] = files["instrumental_separated.wav"]]
    /\ sep' = [sep EXCEPT !.pc = "commit"]
    /\ UNCHANGED <<audio_format, stage, ovars, rvars, avars, subscriber_tasks>>

\* run_step, lines 166-167: the commit after the handler returned
SeparationCommit ==
    /\ sep.pc = "commit"
    /\ audio_format' = "wav"
    /\ sep' = [sep EXCEPT !.pc = "idle", !.runs = @ + 1, !.last = "returned"]
    /\ UNCHANGED <<files, stage, ovars, rvars, avars, subscriber_tasks>>

\* The worker process dies part-way: the session is lost, the files stay
Crash ==
    /\ sep.pc \in {"separate", "rename", "copy", "commit"}
    /\ sep' = [sep EXCEPT !.pc = "idle", !.runs = @ + 1, !.last = "crashed"]
    /\ UNCHANGED <<files, audio_format, stage, ovars, rvars, avars, subscriber_tasks>>

----------------------------------------------------------------------------
(* One execution of run_step at the grain of the progress callback: every  *)
(* progress(percent, msg) call of the handler is a step of its own.         *)

NoStage == [pc |-> "idle"]

\* A job as the upload leaves it, the row a run or a single step loads
Uploaded(engine, lyr) ==
    [Project(engine, FALSE, lyr) EXCEPT !.instrumental_filename = TRUE,
                                        !.status = "melody_ready",
                                        !.current_step = "melody",
                                        !.progress = 100, !.bpm = TRUE]

\* Fault variant of ReportWrite: the callback commits the session
ReportWriteCommit(row, mem, base) == Commit(row, mem, base)

\* report_progress, lines 39-63: what the callback writes to the row of the
\* job: nothing, project.progress is assigned in memory and no commit follows
ReportWrite(row, mem, base) == row

\* run_step, lines 147-149, for a stage with a handler, in a full run or as a
\* single step
StageBegin(step, engine, lyr, br, full) ==
    /\ stage = NoStage
    /\ HasHandler(step)
    /\ br \in Branches(step)
    /\ LET row == Uploaded(engine, lyr)
           mem == StepStarted(row, step)
       IN stage' = [pc |-> "handler", step |-> step, br |-> br, full |-> full,
                    mem |-> mem, base |-> mem, row |-> Commit(row, mem, row),
                    n |-> 0, events |-> <<>>]
    /\ UNCHANGED <<files, audio_format, sep, ovars, rvars, avars, subscriber_tasks>>

\* The next progress(percent, msg) call of the handler: report_progress
StageReport ==
    /\ stage.pc = "handler"
    /\ LET script == HandlerScript(stage.step, stage.mem, stage.br)
       IN /\ stage.n < Len(script)
          /\ LET r == script[stage.n + 1]
                 mem == Reported(stage.mem, r)
             IN stage' = [stage EXCEPT
                    !.n = @ + 1,
                    !.mem = mem,
                    !.row = ReportWrite(@, mem, stage.base),
                    !.events = @ \o PublishProgress(transport,
                                  <<Event(stage.step, r.progress, "processing")>>).sent]
    /\ UNCHANGED <<files, audio_format, sep, ovars, rvars, avars, subscriber_tasks>>

\* The handler returns after its last report: run_step, lines 166-167
StageEnd ==
    /\ stage.pc = "handler"
    /\ stage.n = Len(HandlerScript(stage.step, stage.mem, stage.br))
    /\ LET mem == [stage.mem EXCEPT !.progress = 100]
       IN stage' = [stage EXCEPT !.pc = "done", !.mem = mem, !.base = mem,
                                 !.row = Commit(@, mem, stage.base)]
    /\ UNCHANGED <<files, audio_format, sep, ovars, rvars, avars, subscriber_tasks>>

\* The handler raises: in a full run the except clause commits (lines
\* 114-117), in a single step nothing is committed
StageRaise(e) ==
    /\ stage.pc = "handler"
    /\ IF stage.full
       THEN LET mem == Failed(stage.mem, stage.step, e)
            IN stage' = [stage EXCEPT !.pc = "done", !.mem = mem, !.base = mem,
                                      !.row = Commit(@, mem, stage.base)]
       ELSE stage' = [stage EXCEPT !.pc = "done"]
    /\ UNCHANGED <<files, audio_format, sep, ovars, rvars, avars, subscriber_tasks>>

\* The session is closed
StageClose ==
    /\ stage.pc = "done"
    /\ stage' = NoStage
    /\ UNCHANGED <<files, audio_format, sep, ovars, rvars, avars, subscriber_tasks>>

(* api/routes/batch.py batch_start_pipeline, and the answers of            *)
(* api/routes/pipeline.py that enqueue nothing. One request session serves *)
(* the whole batch: db.get returns again the object the session has        *)
(* loaded (expire_on_commit=False keeps it loaded across the commits).     *)

Ids == Jobs \cup {"j0"}      \* "j0" is an id no project ever has
MaxIds == 2                  \* length of BatchRequest.project_ids

NoBatch == [pc |-> "idle"]
NoResponse == [route |-> "none"]

BatchIds == UNION {[1..n -> Ids] : n \in 0..MaxIds}

\* await db.get(Project, project_id) of a new session
Row(id) == IF id \in ProjectIds THEN db[id] ELSE NoJob

\* await db.get(Project, project_id) of the batch's session (line 43)
BatchGet(id) == IF Found(batch.session[id]) THEN batch.session[id] ELSE Row(id)

\* The requests a batch stands for in the count of trigger requests
Cost(ids) == IF ids = <<>> THEN 1 ELSE Len(ids)

\* batch_start_pipeline is called (lines 38-40)
BatchRequest(ids) ==
    /\ batch = NoBatch
    /\ requests + Cost(ids) <= MaxRequests
    /\ requests' = requests + Cost(ids)
    /\ batch' = [pc |-> "loop", ids |-> ids, i |-> 1,
                 session |-> [id \in Ids |-> NoJob],
                 started |-> <<>>, skipped |-> <<>>, errors |-> <<>>]
    /\ UNCHANGED <<db, queue, req, wvars, rvars, fvars, response, subscriber_tasks>>

\* One turn of the loop up to the enqueue (lines 42-61)
BatchItem ==
    /\ batch # NoBatch
    /\ batch.pc = "loop"
    /\ batch.i <= Len(batch.ids)
    /\ LET id == batch.ids[batch.i]
           obj == BatchGet(id)
       IN  IF ~Found(obj)
           THEN /\ batch' = [batch EXCEPT !.errors = Append(@, id), !.i = @ + 1]
                /\ queue' = queue
           ELSE IF ~obj.instrumental_filename \/ obj.status \in RunningStatuses
           THEN /\ batch' = [batch EXCEPT !.skipped = Append(@, id), !.i = @ + 1,
                                          !.session[id] = obj]
                /\ queue' = queue
           ELSE \/ /\ queue' = Append(queue, FullTask(id))
                   /\ batch' = [batch EXCEPT !.pc = "commit", !.session[id] = obj]
                \/ /\ queue' = queue
                   /\ batch' = [batch EXCEPT !.errors = Append(@, id), !.i = @ + 1,
                                             !.session[id] = obj]
    /\ UNCHANGED <<db, requests, req, wvars, rvars, fvars, response, subscriber_tasks>>

\* The rest of the turn: the assignments and the commit (lines 62-65)
BatchCommit ==
    /\ batch # NoBatch
    /\ batch.pc = "commit"
    /\ LET id == batch.ids[batch.i]
           obj == batch.session[id]
           mem == Triggered(Request("batch", id, NoValue, obj, obj))
       IN  /\ db' = [db EXCEPT ![id] = Commit(@, mem, obj)]
           /\ batch' = [batch EXCEPT !.pc = "loop", !.started = Append(@, id),
                                     !.i = @ + 1, !.session[id] = mem]
    /\ UNCHANGED <<queue, requests, req, wvars, rvars, fvars, response, subscriber_tasks>>

\* return BatchResponse(...) (line 75)
BatchReturn ==
    /\ batch # NoBatch
    /\ batch.pc = "loop"
    /\ batch.i > Len(batch.ids)
    /\ response' = [route |-> "batch", code |-> 200, ids |-> batch.ids,
                    started |-> batch.started, skipped |-> batch.skipped,
                    errors |-> batch.errors]
    /\ batch' = NoBatch
    /\ UNCHANGED <<ovars, rvars, fvars, subscriber_tasks>>

NotFound(route, id) == [route |-> route, id |-> id, code |-> 404]

\* Fault variant of StartPipelineNotFound: the task is enqueued before the
\* project is looked up
StartPipelineUnchecked(id) ==
    /\ ~Found(Row(id))
    /\ response' = NotFound("start", id)
    /\ queue' = Append(queue, FullTask(id))
    /\ UNCHANGED <<db, requests, req, wvars, rvars, fvars, batch, subscriber_tasks>>

\* pipeline.py start_pipeline, lines 28-30, on an id db.get does not find
StartPipelineNotFound(id) ==
    /\ ~Found(Row(id))
    /\ response' = NotFound("start", id)
    /\ UNCHANGED <<ovars, rvars, fvars, batch, subscriber_tasks>>

\* pipeline.py run_pipeline_step, lines 69-71, on an id db.get does not find
RunPipelineStepNotFound(id) ==
    /\ ~Found(Row(id))
    /\ response' = NotFound("step", id)
    /\ UNCHANGED <<ovars, rvars, fvars, batch, subscriber_tasks>>

\* pipeline.py run_pipeline_step, lines 73-91: a prerequisite field of the
\* step is not set
RunPipelineStepRejected(id, step) ==
    /\ Found(Row(id))
    /\ ~Prerequisite(step, Row(id))
    /\ response' = [route |-> "step", id |-> id, code |-> 400, step |-> step]
    /\ UNCHANGED <<ovars, rvars, fvars, batch, subscriber_tasks>>

\* pipeline.py get_pipeline_status
GetPipelineStatus(id) ==
    /\ response' = IF ~Found(Row(id))
                   THEN NotFound("status", id)
                   ELSE [route |-> "status", id |-> id, code |-> 200,
                         status |-> Row(id).status,
                         current_step |-> Row(id).current_step,
                         progress |-> Row(id).progress,
                         error_message |-> Row(id).error_message]
    /\ UNCHANGED <<ovars, rvars, fvars, batch, subscriber_tasks>>

\* Fault variant of DuplicateProject: the whole row is copied
DuplicateProjectWholeRow(j, k) ==
    /\ Found(db[j])
    /\ db[k] = NoJob
    /\ db' = [db EXCEPT ![k] = db[j]]
    /\ UNCHANGED <<queue, requests, req, wvars, rvars, fvars, avars, subscriber_tasks>>

\* projects.py duplicate_project: a new row with the original's
\* synthesis_engine and lyrics (an engine of None takes the column default)
\* and the column defaults for everything else, under a new uuid4 k
DuplicateProject(j, k) ==
    /\ Found(db[j])
    /\ db[k] = NoJob
    /\ db' = [db EXCEPT ![k] =
                Project(IF db[j].synthesis_engine = NoValue THEN "diffsinger"
                        ELSE db[j].synthesis_engine,
                        FALSE, db[j].lyrics)]
    /\ UNCHANGED <<queue, requests, req, wvars, rvars, fvars, avars, subscriber_tasks>>

\* projects.py get_project
GetProject(id) ==
    /\ response' = IF ~Found(Row(id))
                   THEN NotFound("project", id)
                   ELSE [route |-> "project", id |-> id, code |-> 200,
                         project |-> Row(id)]
    /\ UNCHANGED <<ovars, rvars, fvars, batch, subscriber_tasks>>

\* The answer is sent
Respond ==
    /\ response # NoResponse
    /\ response' = NoResponse
    /\ UNCHANGED <<ovars, rvars, fvars, batch, subscriber_tasks>>

InitApi ==
    /\ batch = NoBatch
    /\ response = NoResponse

----------------------------------------------------------------------------
InitFiles ==
    /\ files = [n \in FileNames |-> NoFile]
    /\ audio_format = NoValue
    /\ sep = [pc |-> "idle", fmt |-> NoValue, runs |-> 0, last |-> "none"]
    /\ stage = NoStage

InitRelay ==
    /\ connections = [k \in {} |-> <<>>]
    /\ endpoint = [ws \in Sockets |-> NoEndpoint]
    /\ sub = "none"
    /\ channel = <<>>
    /\ delivery = NoDelivery
    /\ published_n = 0
    /\ received = [ws \in Sockets |-> <<>>]
    /\ transport = "up"
    /\ subscriber_tasks = 0

----------------------------------------------------------------------------
(* The orchestration system: triggers, broker, workers *)

InitOrch ==
    /\ db = [j \in ProjectIds |-> NoJob]
    /\ queue = <<>>
    /\ requests = 0
    /\ req = NoReq
    /\ pc = [w \in Pool |-> "idle"]
    /\ task = [w \in Pool |-> NoTask]
    /\ project = [w \in Pool |-> NoJob]
    /\ idx = [w \in Pool |-> 1]
    /\ calls = [w \in Pool |-> <<>>]
    /\ published = [w \in Pool |-> <<>>]
    /\ result = [w \in Pool |-> "none"]

Init == InitOrch /\ InitRelay /\ InitFiles /\ InitApi

\* The reset that ends a task is local to its worker: it is taken before
\* anything else happens
NoneEnded == \A w \in Pool : pc[w] # "ended"

Next ==
    \/ NoneEnded /\ \E j \in Jobs, e \in Engines : CreateProject(j, e)
    \/ NoneEnded /\ \E j \in Jobs : UpdateProject(j)
    \/ NoneEnded /\ \E j \in Jobs : UploadInstrumental(j)
    \/ NoneEnded /\ \E j \in Jobs : StartPipeline(j)
    \/ NoneEnded /\ \E j \in Jobs, step \in PipelineStep : RunPipelineStep(j, step)
    \/ NoneEnded /\ \E j \in Jobs : BatchStart(j)
    \/ NoneEnded /\ \E j \in Jobs, e \in Engines, hv \in BOOLEAN : QuickStart(j, e, hv)
    \/ NoneEnded /\ TriggerCommit
    \/ NoneEnded /\ \E w \in Workers : TakeTask(w)
    \/ NoneEnded /\ \E w \in Workers : StageStart(w)
    \/ NoneEnded /\ \E w \in Workers : StepTaskStart(w)
    \/ NoneEnded /\ \E w \in Workers : HandlerReturn(w)
    \/ NoneEnded /\ \E w \in Workers, e \in ErrTexts : HandlerRaise(w, e)
    \/ NoneEnded /\ \E w \in Workers : Finalize(w)
    \/ \E w \in Workers : TaskDone(w)

Spec == Init /\ [][Next]_vars

\* The whole worker pool (worker_concurrency processes) serving the full
\* runs that quick-start and start enqueue
NextPool ==
    \/ NoneEnded /\ \E j \in Jobs, e \in Engines, hv \in BOOLEAN : QuickStart(j, e, hv)
    \/ NoneEnded /\ \E j \in Jobs : StartPipeline(j)
    \/ NoneEnded /\ TriggerCommit
    \/ NoneEnded /\ \E w \in Pool : TakeTask(w)
    \/ NoneEnded /\ \E w \in Pool : StageStart(w)
    \/ NoneEnded /\ \E w \in Pool : HandlerReturn(w)
    \/ NoneEnded /\ \E w \in Pool, e \in ErrTexts : HandlerRaise(w, e)
    \/ NoneEnded /\ \E w \in Pool : Finalize(w)
    \/ \E w \in Pool : TaskDone(w)

SpecPool == Init /\ [][NextPool]_vars

\* The progress relay: publishers, the registry and its subscriber task
\* Full runs of quick-started jobs whose handlers all return, with Redis
\* going down and up at any moment
NextPublish ==
    \/ NoneEnded /\ \E j \in Jobs, e \in Engines, hv \in BOOLEAN : QuickStart(j, e, hv)
    \/ NoneEnded /\ TriggerCommit
    \/ NoneEnded /\ \E w \in Workers : TakeTask(w)
    \/ NoneEnded /\ \E w \in Workers : StageStart(w)
    \/ NoneEnded /\ \E w \in Workers : HandlerReturn(w)
    \/ NoneEnded /\ \E w \in Workers : Finalize(w)
    \/ \E w \in Workers : TaskDone(w)
    \/ NoneEnded /\ TransportChange

SpecPublish == Init /\ [][NextPublish]_vars

\* Jobs that are created, uploaded to, triggered and deleted, with tasks of
\* a deleted job left in the broker
NextDelete ==
    \/ NoneEnded /\ \E j \in Jobs, e \in Engines : CreateProject(j, e)
    \/ NoneEnded /\ \E j \in Jobs : UploadInstrumental(j)
    \/ NoneEnded /\ \E j \in Jobs : StartPipeline(j)
    \/ NoneEnded /\ \E j \in Jobs, step \in PipelineStep : RunPipelineStep(j, step)
    \/ NoneEnded /\ TriggerCommit
    \/ NoneEnded /\ \E j \in Jobs : DeleteProject(j)
    \/ NoneEnded /\ \E w \in Workers : TakeTask(w)
    \/ NoneEnded /\ \E w \in Workers : StageStart(w)
    \/ NoneEnded /\ \E w \in Workers : StepTaskStart(w)
    \/ NoneEnded /\ \E w \in Workers : HandlerReturn(w)
    \/ NoneEnded /\ \E w \in Workers : Finalize(w)
    \/ \E w \in Workers : TaskDone(w)

SpecDelete == Init /\ [][NextDelete]_vars

\* An answer is sent before anything else happens
Quiet == NoneEnded /\ response = NoResponse

\* The job-trigger routes called on known and unknown ids, batches
\* included, while the workers run what they enqueue
NextApi ==
    \/ Quiet /\ \E j \in Jobs, e \in Engines : CreateProject(j, e)
    \/ Quiet /\ \E j \in Jobs : UploadInstrumental(j)
    \/ Quiet /\ \E j \in Jobs : StartPipeline(j)
    \/ Quiet /\ \E j \in Jobs, step \in PipelineStep : RunPipelineStep(j, step)
    \/ Quiet /\ TriggerCommit
    \/ Quiet /\ \E ids \in BatchIds : BatchRequest(ids)
    \/ Quiet /\ BatchItem
    \/ Quiet /\ BatchCommit
    \/ Quiet /\ BatchReturn
    \/ Quiet /\ \E id \in Ids : StartPipelineNotFound(id)
    \/ Quiet /\ \E id \in Ids : RunPipelineStepNotFound(id)
    \/ Quiet /\ \E id \in Ids, step \in PipelineStep : RunPipelineStepRejected(id, step)
    \/ Quiet /\ \E id \in Ids : GetPipelineStatus(id)
    \/ Respond
    \/ Quiet /\ \E w \in Workers : TakeTask(w)
    \/ Quiet /\ \E w \in Workers : StageStart(w)
    \/ Quiet /\ \E w \in Workers : StepTaskStart(w)
    \/ Quiet /\ \E w \in Workers : HandlerReturn(w)
    \/ Quiet /\ \E w \in Workers : Finalize(w)
    \/ \E w \in Workers : TaskDone(w)

SpecApi == Init /\ [][NextApi]_vars

\* The worker pool alone, with more tasks in the broker than it has
\* processes: the tasks the trigger routes have enqueued for two jobs whose
\* instrumental is uploaded and analysed
MaxQueued == 3

UploadedProject ==
    [Project("diffsinger", FALSE, FALSE) EXCEPT !.instrumental_filename = TRUE,
                                                !.status = "melody_ready",
                                                !.current_step = "melody",
                                                !.progress = 100,
                                                !.bpm = TRUE]

QueuedTasks == {FullTask(j) : j \in ProjectIds} \cup {StepTask(j, "analysis") : j \in ProjectIds}

InitPool ==
    /\ db = [j \in ProjectIds |-> UploadedProject]
    /\ queue \in [1..MaxQueued -> QueuedTasks]
    /\ requests = 0
    /\ req = NoReq
    /\ pc = [w \in Pool |-> "idle"]
    /\ task = [w \in Pool |-> NoTask]
    /\ project = [w \in Pool |-> NoJob]
    /\ idx = [w \in Pool |-> 1]
    /\ calls = [w \in Pool |-> <<>>]
    /\ published = [w \in Pool |-> <<>>]
    /\ result = [w \in Pool |-> "none"]
    /\ InitRelay /\ InitFiles /\ InitApi

NextLimit ==
    \/ NoneEnded /\ \E w \in Pool : TakeTask(w)
    \/ NoneEnded /\ \E w \in Pool : StageStart(w)
    \/ NoneEnded /\ \E w \in Pool : StepTaskStart(w)
    \/ NoneEnded /\ \E w \in Pool : HandlerReturn(w)
    \/ NoneEnded /\ \E w \in Pool : Finalize(w)
    \/ \E w \in Pool : TaskDone(w)

SpecLimit == InitPool /\ [][NextLimit]_vars

\* The CRUD routes of the projects, on two ids
NextProjects ==
    \/ Quiet /\ \E k \in ProjectIds, e \in Engines : CreateProject(k, e)
    \/ Quiet /\ \E j, k \in ProjectIds : DuplicateProject(j, k)
    \/ Quiet /\ \E j \in ProjectIds : UpdateProject(j)
    \/ Quiet /\ \E j \in ProjectIds : UploadInstrumental(j)
    \/ Quiet /\ \E j \in ProjectIds : DeleteProject(j)
    \/ Quiet /\ \E id \in ProjectIds : GetProject(id)
    \/ Respond

SpecProjects == Init /\ [][NextProjects]_vars

\* Uploads and executions of SEPARATION on one job, with crashes
NextFiles ==
    \/ \E fmt \in Formats : SaveUpload(fmt)
    \/ SeparationBegin
    \/ Separate
    \/ Rename
    \/ Copy
    \/ SeparationCommit
    \/ Crash

SpecFiles == Init /\ [][NextFiles]_vars

\* Executions of run_step, one after the other
NextStage ==
    \/ \E step \in PipelineStep, engine \in Engines, lyr \in BOOLEAN,
          br \in {"bypass", "full"}, full \in BOOLEAN :
            StageBegin(step, engine, lyr, br, full)
    \/ StageReport
    \/ StageEnd
    \/ \E e \in ErrTexts : StageRaise(e)
    \/ StageClose

SpecStage == Init /\ [][NextStage]_vars

NextRelay ==
    \/ \E ws \in Sockets, j \in Channels : Connect(ws, j)
    \/ \E ws \in Sockets : ClientDrop(ws)
    \/ \E ws \in Sockets : EndpointEnd(ws)
    \/ \E j \in Channels : Publish(j)
    \/ Subscribed
    \/ RelayReceive
    \/ SendText
    \/ SendDone
    \/ SubscriberError
    \/ BackoffEnd
    \/ Cancel

SpecRelay == Init /\ [][NextRelay]_vars

\* The relay under the scheduling of the event loop: the sleep of the
\* backoff ends, and the subscriber task, while it is not cancelled and its
\* subscription does not raise, reads the next message and goes through the
\* list of send_to_project
SpecRelayLive ==
    /\ SpecRelay
    /\ WF_vars(BackoffEnd)
    /\ WF_vars(RelayReceive)
    /\ WF_vars(SendText)
    /\ WF_vars(SendDone)

----------------------------------------------------------------------------
(* Properties of the orchestrator's runs *)

Range(seq) == {seq[i] : i \in DOMAIN seq}

\* The full runs that found their job
FullRuns == {w \in Pool : task[w].kind = "full" /\ project[w] # NoJob}

\* The stage at the end of the fixed order that a run of p executes
RECURSIVE LastExecuted(_, _)
LastExecuted(i, p) ==
    IF i = 0 THEN NoValue
    ELSE IF Skipped(PIPELINE_ORDER[i], p) THEN LastExecuted(i - 1, p)
    ELSE PIPELINE_ORDER[i]

\* The handlers a run of p is to invoke: the fixed order without UPLOAD,
\* without SEPARATION unless has_vocals, without MELODY for acestep
ExpectedCalls(p) ==
    (IF p.has_vocals THEN <<"separation">> ELSE <<>>)
    \o <<"analysis">>
    \o (IF p.synthesis_engine = "acestep" THEN <<>> ELSE <<"melody">>)
    \o <<"synthesis", "refinement", "mix">>

\* C1: when a stage handler raises during run_full_pipeline, the run ends
\* there: its Project has status ERROR and an error_message that is not
\* empty and contains the identifier of the failing stage (the persisted
\* error_message is not empty either), and the failing stage is the last
\* handler the run invoked.
C1_FailedRunEndsInError ==
    \A w \in FullRuns :
        result[w] = "error" =>
            /\ pc[w] = "ended"
            /\ project[w].status = "error"
            /\ project[w].error_message # <<>>
            /\ CurStep(w) \in Range(project[w].error_message)
            /\ db[task[w].job].error_message # <<>>
            /\ calls[w] # <<>>
            /\ calls[w][Len(calls[w])] = CurStep(w)
            /\ calls[w] = SubSeq(ExpectedCalls(project[w]), 1, Len(calls[w]))

\* A full run failed in its third stage or later
C1_Witness ==
    \E w \in FullRuns :
        /\ result[w] = "error"
        /\ Len(calls[w]) >= 3
        /\ project[w].status = "error"

\* C2, the Project of the run: when run_full_pipeline completes without a
\* handler raising, current_step is the last non-skipped stage of the fixed
\* order, status is COMPLETED and progress is 100.
C2_CompletedProject ==
    \A w \in FullRuns :
        result[w] = "completed" =>
            /\ project[w].current_step = LastExecuted(Len(PIPELINE_ORDER), project[w])
            /\ project[w].status = "completed"
            /\ project[w].progress = 100

\* C2, persisted: the commit that starts the last stage writes current_step,
\* the commit that ends it writes progress 100, and the final commit writes
\* status COMPLETED to the row of the job.
C2_Persisted ==
    \A w \in Pool :
        LET j == task[w].job
            last == LastExecuted(Len(PIPELINE_ORDER), project[w])
        IN (task[w].kind = "full" /\ task'[w] = task[w]) =>
            /\ (pc[w] = "loop" /\ pc'[w] = "handler" /\ PIPELINE_ORDER[idx'[w]] = last)
                   => db'[j].current_step = last
            /\ (pc[w] = "handler" /\ pc'[w] = "loop" /\ CurStep(w) = last)
                   => db'[j].progress = 100
            /\ (pc[w] = "loop" /\ pc'[w] = "ended")
                   => db'[j].status = "completed"

C3_HandlersInFixedOrder ==
    \A w \in FullRuns :
        result[w] = "completed" =>
            /\ calls[w] = ExpectedCalls(project[w])
            /\ {"analysis", "synthesis", "refinement", "mix"} \subseteq Range(calls[w])

\* The run of the scenario: has_vocals false and engine diffsinger
C3_Witness ==
    \E w \in FullRuns :
        /\ result[w] = "completed"
        /\ ~project[w].has_vocals
        /\ project[w].synthesis_engine = "diffsinger"
        /\ calls[w] = <<"analysis", "melody", "synthesis", "refinement", "mix">>

\* C4: in a full run of a job with has_vocals == false the SEPARATION handler
\* is never invoked and no event with step "separation" is published.
C4_NoSeparationWithoutVocals ==
    \A w \in FullRuns :
        ~project[w].has_vocals =>
            /\ "separation" \notin Range(calls[w])
            /\ \A i \in DOMAIN published[w] : published[w][i].step # "separation"

\* A full run without vocals is past the place of SEPARATION, in the handler
\* of its last stage
C4_Witness ==
    \E w \in FullRuns :
        /\ ~project[w].has_vocals
        /\ pc[w] = "handler"
        /\ CurStep(w) = "mix"

\* C5: in a full run of a job whose synthesis_engine is "acestep" the MELODY
\* handler is never invoked; with every other engine value, unset included,
\* MELODY has been invoked by the time SYNTHESIS is.
C5_MelodyUnlessAcestep ==
    \A w \in FullRuns :
        IF project[w].synthesis_engine = "acestep"
        THEN "melody" \notin Range(calls[w])
        ELSE "synthesis" \in Range(calls[w]) => "melody" \in Range(calls[w])

\* A full run with engine acestep completed
C5_Witness ==
    \E w \in FullRuns :
        /\ project[w].synthesis_engine = "acestep"
        /\ result[w] = "completed"

\* A full run with no engine set invoked MELODY
C5_WitnessUnset ==
    \E w \in FullRuns :
        /\ project[w].synthesis_engine = NoValue
        /\ "melody" \in Range(calls[w])

\* C6: single-flight per job: at no time do two full-pipeline runs execute
\* for the same job id.
C6_SingleFlight ==
    \A j \in Jobs :
        Cardinality({w \in Pool : /\ task[w].kind = "full"
                                  /\ task[w].job = j
                                  /\ pc[w] \in {"loop", "handler"}}) <= 1

\* Two full runs of one job are in their handlers at the same time, on two
\* different stages
C6_Witness ==
    \E v, w \in FullRuns :
        /\ v # w
        /\ task[v].job = task[w].job
        /\ pc[v] = "handler" /\ pc[w] = "handler"
        /\ CurStep(v) # CurStep(w)

\* C7, the Job Record: status ERROR implies a non-empty error_message.
C7_ErrorHasMessage ==
    \A j \in Jobs :
        (Found(db[j]) /\ db[j].status = "error") => db[j].error_message # <<>>

\* C7, the runs: a run that has set status ERROR invokes no further handler;
\* a worker executes only a task it takes from the head of the queue, and a
\* task gets into the queue only with a trigger request.
C7_StagesOnlyByTrigger ==
    /\ \A w \in Pool :
          result[w] = "error" =>
              \/ calls'[w] = calls[w]
              \/ pc'[w] = "idle" /\ calls'[w] = <<>>
    /\ \A w \in Pool :
          (task'[w] # task[w] /\ task'[w] # NoTask) =>
              /\ queue # <<>>
              /\ task'[w] = Head(queue)
              /\ queue' = Tail(queue)
    /\ \A w \in Pool :
          Len(calls'[w]) > Len(calls[w]) => (task[w] # NoTask /\ task'[w] = task[w])
    /\ Len(queue') > Len(queue) =>
          /\ requests' = requests + 1
          /\ \E j \in Jobs, step \in PipelineStep \cup {NoValue} :
                queue' = Append(queue, IF step = NoValue THEN FullTask(j)
                                       ELSE StepTask(j, step))

\* C7: in every reachable state of a Job Record status == ERROR implies a
\* non-empty error_message; once a run has set status ERROR it invokes no
\* further stage handler, and another stage runs only after an explicit
\* trigger has enqueued the full pipeline or one step.
C7_ErrorIsTerminal == []C7_ErrorHasMessage /\ [][C7_StagesOnlyByTrigger]_vars

\* The job is in ERROR after the run of a second trigger failed as well
C7_Witness ==
    \E w \in FullRuns :
        /\ requests = 2
        /\ result[w] = "error"
        /\ db[task[w].job].status = "error"

\* C8: whenever the handler of a stage raises inside run_step, in a full run
\* and in a single-step task alike, the job is put in status ERROR with an
\* error_message, an error event is published and the exception does not
\* leave the task.
C8_FailureRecoveredAtStep ==
    \A w \in Pool :
        (pc[w] = "ended" /\ result[w] \in {"error", "raised"}) =>
            /\ result[w] # "raised"
            /\ project[w].status = "error"
            /\ project[w].error_message # <<>>
            /\ published[w] # <<>>
            /\ published[w][Len(published[w])].status = "error"

\* The handler of a single-step task raised: the exception left the task,
\* the row of the job is not in ERROR and no error event was published
C8_Witness ==
    \E w \in Pool :
        /\ task[w].kind = "step"
        /\ result[w] = "raised"
        /\ db[task[w].job].status # "error"
        /\ \A i \in DOMAIN published[w] : published[w][i].status # "error"

\* C9: the events a run publishes for one stage, one after the other, have
\* non-decreasing percent, from the start event at 0 through the reports of
\* the handler to the completed event at 100, and the last event of a successful full run has
\* status completed and percent 100. (C10: they reach an observer in this
\* order.)
C9_NonDecreasingWithinStage ==
    \A w \in Pool :
        LET ev == published[w]
        IN /\ \A i \in 1..(Len(ev) - 1) :
                 ev[i].step = ev[i + 1].step => ev[i].progress <= ev[i + 1].progress
           /\ \A i \in DOMAIN ev :
                 /\ ev[i].status = "completed" => ev[i].progress = 100
                 /\ (w \in FullRuns /\ ev[i].step \in PipelineStep
                     /\ (i = 1 \/ ev[i - 1].step # ev[i].step)) => ev[i].progress = 0
           /\ (w \in FullRuns /\ result[w] = "completed") =>
                 /\ ev # <<>>
                 /\ ev[Len(ev)] = Event("completed", 100, "completed")
                 /\ \A s \in Range(calls[w]) :
                       \E i \in DOMAIN ev : ev[i] = Event(s, 100, "completed")

\* A successful full run with engine acestep published the reports of the
\* vocal separation inside SYNTHESIS
C9_Witness ==
    \E w \in FullRuns :
        /\ result[w] = "completed"
        /\ \E i \in DOMAIN published[w] :
              published[w][i] = Event("synthesis", 74, "processing")

\* C10: the events published for one job reach a connection in publish
\* order: of two payloads of the same job sent to the same websocket, the
\* one published first is sent first.
C10_DeliveredInPublishOrder ==
    \A ws \in Sockets :
        \A i, k \in DOMAIN received[ws] :
            (i < k /\ received[ws][i].job = received[ws][k].job)
                => received[ws][i].seq < received[ws][k].seq

\* A websocket was sent two events of its job
C10_Witness ==
    \E ws \in Sockets :
        /\ Len(received[ws]) >= 2
        /\ received[ws][1].job = received[ws][2].job
        /\ received[ws][1].seq < received[ws][2].seq

----------------------------------------------------------------------------
(* Properties of the relay *)

\* The websockets registered under job j
RegisteredSet(conns, j) == Range(Registered(conns, j))

\* C11, delivery: every websocket of the list send_to_project iterates that
\* the call has passed and that is still connected has been sent the
\* payload.
C11_SentToEveryObserver ==
    (sub = "sending") =>
        \A k \in 1..(delivery.i - 1) :
            endpoint[delivery.list[k]].alive =>
                delivery.data \in Range(received[delivery.list[k]])

\* C11, registry: the end of one observer's endpoint leaves every other
\* websocket registered, under the same job and in the same order.
C11_OthersStayRegistered ==
    \A ws \in Sockets :
        (endpoint[ws].state = "open" /\ endpoint'[ws].state = "ended") =>
            \A j \in DOMAIN connections :
                SelectSeq(connections[j], LAMBDA x : x # ws)
                    = SelectSeq(Registered(connections', j), LAMBDA x : x # ws)

\* C11: one published event is delivered to every observer connected to the
\* job, and disconnecting one observer leaves every other observer of that
\* job registered and receiving later events.
C11_FanOut == []C11_SentToEveryObserver /\ [][C11_OthersStayRegistered]_vars

\* Two observers of one job were sent the same event; one of them is gone
\* and the other one, still registered, was sent a later event
C11_Witness ==
    \E v, w \in Sockets :
        /\ v # w
        /\ endpoint[v].job = endpoint[w].job
        /\ endpoint[v].state = "ended"
        /\ endpoint[w].state = "open"
        /\ w \in RegisteredSet(connections, endpoint[w].job)
        /\ Len(received[v]) = 1
        /\ Len(received[w]) = 2
        /\ received[w][1] = received[v][1]

\* C12, during the call: every websocket the call has passed either raised
\* (and is noted as dead) or has been sent the payload.
C12_RestStillReceive ==
    (sub = "sending") =>
        \A k \in 1..(delivery.i - 1) :
            \/ delivery.list[k] \in Range(delivery.dead)
            \/ delivery.data \in Range(received[delivery.list[k]])

\* C12, at the end of the call: the websockets that raised are in no list of
\* the job any more, the others are registered as before, and the subscriber
\* goes on listening.
C12_DeadPruned ==
    (sub = "sending" /\ sub' = "listening") =>
        /\ delivery.i > Len(delivery.list)
        /\ \A ws \in Range(delivery.dead) :
              ws \notin RegisteredSet(connections', delivery.job)
        /\ \A j \in Channels :
              Registered(connections', j) =
                  IF j = delivery.job
                  THEN SelectSeq(Registered(connections, j),
                                 LAMBDA x : x \notin Range(delivery.dead))
                  ELSE Registered(connections, j)

\* The call never ends in the error handling of the subscriber
C12_NoEscape == (sub = "sending") => (sub' \in {"sending", "listening", "cancelled"})

\* C12: when a connection raises on send, every other connection of the
\* job registered at the time of the call still receives the payload, the
\* raising connection is removed by the end of the call, the others stay
\* registered and no exception leaves send_to_project.
C12_FaultIsolation ==
    []C12_RestStillReceive /\ [][C12_DeadPruned /\ C12_NoEscape]_vars

\* A call ended in which the first websocket of the list raised and was
\* removed, and the second one, still registered, was sent the payload
C12_Witness ==
    \E v, w \in Sockets :
        /\ v # w
        /\ sub = "listening"
        /\ endpoint[v].job = endpoint[w].job
        /\ endpoint[v].state = "open" /\ ~endpoint[v].alive
        /\ received[v] = <<>>
        /\ Registered(connections, endpoint[w].job) = <<w>>
        /\ received[w] # <<>>

\* C13: no job key of the registry maps to an empty list of connections.
C13_NoEmptyKey ==
    \A j \in DOMAIN connections : connections[j] # <<>>

\* The last connection of a job is gone and so is the key, while another job
\* has a connection
C13_Witness ==
    \E ws \in Sockets :
        /\ endpoint[ws].state \in {"open", "ended"}
        /\ endpoint[ws].job \notin DOMAIN connections
        /\ DOMAIN connections # {}

\* C14, restart: a subscription that ended with an error is followed by the
\* next subscriber task, unless the task is cancelled during the backoff.
C14_Restarted == (sub = "backoff") ~> (sub \in {"starting", "cancelled"})

\* Nothing but the restart follows the backoff
C14_OnlyRestart == (sub = "backoff") => (sub' \in {"backoff", "starting", "cancelled"})

\* C14, relay: a message that reached the subscription is handed to
\* send_to_project, unless the subscription raises or is cancelled first.
C14_Relayed ==
    \A j \in Channels, n \in 1..MaxEvents :
        (Message(j, n) \in Range(channel)) ~>
            \/ sub \in {"backoff", "cancelled"}
            \/ delivery # NoDelivery /\ delivery.data = Message(j, n)

\* C14: whenever the subscription ends with an error the subscriber is
\* started again after the backoff, every time, so that (unless cancelled)
\* events published while it listens again are relayed.
C14_RelayLiveness ==
    C14_Restarted /\ [][C14_OnlyRestart]_vars /\ C14_Relayed

\* An observer was sent an event, the subscription raised, and the next
\* subscriber task has been created while events remain to be published
C14_Witness ==
    /\ sub = "starting"
    /\ published_n < MaxEvents
    /\ \E ws \in Sockets :
          /\ received[ws] # <<>>
          /\ ws \in RegisteredSet(connections, endpoint[ws].job)

\* C15: a failure of the transport during publish_progress never changes
\* the outcome of a run: with Redis down at any of its publishes, a full run
\* whose handlers all return ends completed, with the handlers invoked and
\* the Project fields of a run whose publishes all succeed.
C15_PublishFireAndForget ==
    \A w \in Workers :
        (pc[w] = "ended" /\ task[w].kind = "full" /\ project[w] # NoJob) =>
            /\ result[w] = "completed"
            /\ calls[w] = ExpectedCalls(project[w])
            /\ \E inst \in BOOLEAN :
                  project[w] =
                      [Project(project[w].synthesis_engine, project[w].has_vocals, TRUE)
                          EXCEPT !.status = "completed", !.current_step = "mix",
                                 !.progress = 100, !.bpm = TRUE,
                                 !.instrumental_filename = inst]

\* A run ended completed and every one of its publishes failed
C15_Witness ==
    \E w \in Workers :
        /\ pc[w] = "ended"
        /\ result[w] = "completed"
        /\ project[w].status = "completed"
        /\ published[w] = <<>>
        /\ transport = "down"

\* C16: a full-pipeline task or a single-step task whose job id resolves to
\* no record ends at once: no handler is invoked, no event is published and
\* the id still has no record.
C16_JobNotFound ==
    \A w \in Workers :
        (task[w] # NoTask /\ "absent" \in DOMAIN project[w]) =>
            /\ pc[w] = "ended"
            /\ result[w] = "not_found"
            /\ calls[w] = <<>>
            /\ published[w] = <<>>
            /\ db[task[w].job] = Deleted

\* A full-pipeline task found no record of its job
C16_Witness ==
    \E w \in Workers :
        /\ task[w] # NoTask
        /\ task[w].kind = "full"
        /\ result[w] = "not_found"
        /\ db[task[w].job] = Deleted

\* A single-step task found no record of its job
C16_WitnessStep ==
    \E w \in Workers :
        /\ task[w] # NoTask
        /\ task[w].kind = "step"
        /\ result[w] = "not_found"

\* The single-step tasks that found their job
StepRuns == {w \in Workers : task[w].kind = "step" /\ Found(project[w])}

\* C17, state of a direct run_step: from its first commit on current_step
\* is the stage, the handler of the stage and no other has been invoked,
\* whatever the skip predicates say, and progress is 0 until it returns.
C17_StepRun ==
    \A w \in StepRuns :
        pc[w] \in {"handler", "ended"} =>
            /\ project[w].current_step = task[w].step
            /\ calls[w] = IF HasHandler(task[w].step) THEN <<task[w].step>> ELSE <<>>
            /\ pc[w] = "handler" => project[w].progress = 0
            /\ result[w] = "step_done" => project[w].progress = 100

\* C17, commits of a direct run_step: the commit ahead of the handler
\* writes current_step and progress 0 wherever the job had other values, and
\* the commit after the handler returned writes progress 100.
C17_Persisted ==
    \A w \in Workers :
        /\ (pc[w] = "step" /\ pc'[w] = "handler") =>
              /\ calls[w] = <<>> /\ published'[w] = <<>>
              /\ project[w].current_step # task[w].step =>
                    db'[task[w].job].current_step = task[w].step
              /\ project[w].progress # 0 => db'[task[w].job].progress = 0
        /\ (task[w].kind = "step" /\ pc[w] = "handler" /\ result'[w] = "step_done") =>
              db'[task[w].job].progress = 100

RECURSIVE StagesOf(_)
StagesOf(ev) ==
    IF ev = <<>> THEN <<>>
    ELSE LET n == Len(ev)
             before == StagesOf(SubSeq(ev, 1, n - 1))
         IN IF ev[n].step \in PipelineStep /\ (n = 1 \/ ev[n - 1].step # ev[n].step)
            THEN Append(before, ev[n].step)
            ELSE before

\* C18: within a full run the stages are strictly sequential: the events of
\* the run fall into one block for each handler invoked, in the order of the
\* invocations; a block opens with the start event (percent 0) of its stage,
\* the completed event (percent 100) of a stage is the last event of its
\* block and precedes the start event of the next stage; while a handler
\* executes, every handler invoked before it has returned and has its
\* completed event published.
C18_StagesSequential ==
    \A w \in FullRuns :
        LET ev == published[w]
        IN /\ StagesOf(ev) = calls[w]
           /\ \A i \in 1..Len(ev) :
                 /\ (ev[i].step \in PipelineStep /\ (i = 1 \/ ev[i - 1].step # ev[i].step)) =>
                       /\ ev[i] = Event(ev[i].step, 0, "processing")
                       /\ i > 1 => ev[i - 1] = Event(ev[i - 1].step, 100, "completed")
                 /\ (ev[i].step \in PipelineStep /\ ev[i].status = "completed") =>
                       /\ ev[i].progress = 100
                       /\ i = Len(ev) \/ ev[i + 1].step # ev[i].step
           /\ pc[w] = "handler" =>
                 /\ ev # <<>>
                 /\ ev[Len(ev)] = Event(CurStep(w), 0, "processing")
                 /\ \A k \in 1..(Len(calls[w]) - 1) :
                       Event(calls[w][k], 100, "completed") \in Range(ev)

\* The handler of a stage executes after the completed event of the stage
\* before it
C18_Witness ==
    \E w \in FullRuns :
        /\ pc[w] = "handler"
        /\ Len(calls[w]) >= 2
        /\ Len(published[w]) >= 4
        /\ published[w][Len(published[w]) - 1]
              = Event(calls[w][Len(calls[w]) - 1], 100, "completed")

\* C19: every stage execution, in a full run and in a single-step run alike,
\* publishes the start event of the stage before the handler runs and, when
\* the handler has returned or raised, the completed event of the stage or
\* the error event.
C19_StageEventsPublished ==
    \A w \in Workers :
        (task[w] # NoTask /\ Found(project[w]) /\ calls[w] # <<>>) =>
            LET ev == published[w]
                step == calls[w][Len(calls[w])]
            IN /\ Event(step, 0, "processing") \in Range(ev)
               /\ pc[w] = "ended" =>
                     ev[Len(ev)] \in {Event(step, 100, "completed"),
                                      Event("completed", 100, "completed"),
                                      Event("error", 0, "error")}

\* A single-step task ran the handler of its stage to the end and published
\* the reports of the handler alone
C19_Witness ==
    \E w \in StepRuns :
        /\ result[w] = "step_done"
        /\ calls[w] = <<task[w].step>>
        /\ published[w] # <<>>
        /\ \A i \in 1..Len(published[w]) :
              /\ published[w][i].status = "processing"
              /\ published[w][i].progress \notin {0, 100}

\* The events of a run that end it
Terminal(e) == e.step \in {"error", "completed"}

\* C20: every full run that found its job publishes exactly one terminal
\* event, as its last event: the error event (percent 0) after the first
\* handler that raised, with no completed event of that stage and no final
\* completed event, or the final completed event (percent 100) after the
\* completed events of all its stages.
C20_OneTerminalEvent ==
    \A w \in FullRuns :
        LET ev == published[w]
        IN IF pc[w] # "ended"
           THEN \A i \in 1..Len(ev) : ~Terminal(ev[i])
           ELSE /\ ev # <<>>
                /\ \A i \in 1..Len(ev) : Terminal(ev[i]) <=> i = Len(ev)
                /\ result[w] \in {"error", "completed"}
                /\ result[w] = "error" =>
                      /\ ev[Len(ev)] = Event("error", 0, "error")
                      /\ Event(calls[w][Len(calls[w])], 100, "completed") \notin Range(ev)
                /\ result[w] = "completed" =>
                      /\ ev[Len(ev)] = Event("completed", 100, "completed")
                      /\ \A k \in 1..Len(calls[w]) :
                            Event(calls[w][k], 100, "completed") \in Range(ev)

\* A run failed in its second stage or later: its last event is the error
\* event, after the completed event of the stage before
C20_Witness ==
    \E w \in FullRuns :
        /\ pc[w] = "ended"
        /\ result[w] = "error"
        /\ Len(calls[w]) >= 2
        /\ published[w][Len(published[w])] = Event("error", 0, "error")
        /\ Event(calls[w][1], 100, "completed") \in Range(published[w])

\* C21: when the task function of a full run that found its job returns,
\* the persisted status of the job is COMPLETED or ERROR: a run that has
\* ended leaves no mid-stage status behind.
C21_FinalStatusPersisted ==
    \A w \in FullRuns :
        pc[w] = "ended" => db[task[w].job].status \in {"completed", "error"}

\* A run ended in the except clause and the persisted status is ANALYZING,
\* with no request under way and nothing left in the broker
C21_Witness ==
    \E w \in FullRuns :
        /\ pc[w] = "ended"
        /\ result[w] = "error"
        /\ project[w].status = "error"
        /\ db[task[w].job].status = "analyzing"
        /\ req = NoReq
        /\ queue = <<>>

\* C22: an execution of SEPARATION from scratch, after an earlier complete
\* execution or after a crash part-way, finds its input, returns, and leaves
\* what a single execution leaves: the uploaded audio under
\* original.<format> and the separated track of the upload as
\* instrumental.wav, with audio_format "wav".
C22_RerunSafe ==
    /\ sep.last # "raised"
    /\ sep.last = "returned" =>
          /\ \E fmt \in Formats : files[OriginalPath(fmt)] = 0
          /\ files["instrumental.wav"] = 1
          /\ audio_format = "wav"

\* A second execution returned; no file holds the uploaded audio any more
\* and instrumental.wav is the separation of a separated track
C22_Witness ==
    /\ sep.last = "returned"
    /\ sep.runs = 2
    /\ \A n \in FileNames : files[n] # 0
    /\ files["instrumental.wav"] = 2

\* After a crash between the rename and the copy the next execution finds
\* no input
C22_WitnessCrash ==
    /\ sep.last = "raised"
    /\ \E fmt \in Formats : files[OriginalPath(fmt)] = 0

\* The step in which a handler returns leaves status and current_step of
\* the session as they were
C23_HandlerFrame ==
    \A w \in Workers :
        (/\ pc[w] = "handler"
         /\ HasHandler(CurStep(w))
         /\ pc'[w] = "loop" \/ result'[w] = "step_done") =>
            /\ project'[w].status = project[w].status
            /\ project'[w].current_step = project[w].current_step

\* C23: a stage handler never mutates status or current_step of the job:
\* across the invocation of any handler that returns, the two fields are
\* what they were when it was called.
C23_HandlersKeepStatus == [][C23_HandlerFrame]_vars

\* The handler of SYNTHESIS, run as a single step on a job whose status was
\* MELODY_READY, has returned and the status is SYNTHESIZING
C23_Witness ==
    \E w \in StepRuns :
        /\ task[w].step = "synthesis"
        /\ result[w] = "step_done"
        /\ project[w].status = "synthesizing"
        /\ db[task[w].job].status = "synthesizing"

\* A step that changes the persisted error_message of a job writes a
\* message, and is a step that sets the status to ERROR: the row it writes
\* has status ERROR, or it is the except clause of a run, whose session has
\* it. Within a session the message changes only together with the status.
C24_MessageStep ==
    /\ \A j \in Jobs :
          (/\ Found(db[j]) /\ Found(db'[j])
           /\ db'[j].error_message # db[j].error_message) =>
              /\ db'[j].error_message # <<>>
              /\ \/ db'[j].status = "error"
                 \/ \E w \in Pool :
                       /\ task[w] # NoTask /\ task[w].job = j
                       /\ result[w] = "running" /\ result'[w] = "error"
                       /\ project'[w].status = "error"
    /\ \A w \in Pool :
          (/\ Found(project[w]) /\ Found(project'[w])
           /\ project'[w].error_message # project[w].error_message) =>
              /\ project'[w].error_message # <<>>
              /\ project'[w].status = "error"
              /\ result'[w] = "error"

\* C24: error_message is set at the transition of status to ERROR and
\* nowhere else, and is never cleared: no trigger and no run resets it to
\* empty, a later run that ends COMPLETED included.
C24_MessageNeverCleared == [][C24_MessageStep]_vars

\* A job that failed once has been run again to COMPLETED and still has the
\* message of the failure
C24_Witness ==
    \E j \in Jobs :
        /\ Found(db[j])
        /\ db[j].status = "completed"
        /\ db[j].error_message # <<>>
        /\ \E w \in FullRuns : result[w] = "completed" /\ task[w].job = j

\* The commit that ends a start, quick-start or batch request finds status,
\* current_step and progress of the job as the request read (or inserted)
\* them before the enqueue
C25_WriteStep ==
    (req # NoReq /\ req' = NoReq /\ req.kind \in {"start", "quick", "batch"}) =>
        \A f \in {"status", "current_step", "progress"} :
            db[req.job][f] = req.committed[f]

\* C25: the write status = ANALYZING, current_step = ANALYSIS, progress = 0
\* that start_pipeline, quick_start and batch_start make after the enqueue
\* never lands after a value persisted by a run in between, so that a
\* finished run's COMPLETED or ERROR is not replaced by ANALYZING.
C25_TriggerWritesFirst == [][C25_WriteStep]_vars

\* The only trigger of a job was a quick-start; its run has ended COMPLETED
\* and is gone, nothing is in the broker, and the persisted status is
\* ANALYZING
C25_Witness ==
    \E j \in Jobs :
        /\ requests = 1
        /\ req = NoReq
        /\ queue = <<>>
        /\ \A w \in Pool : pc[w] = "idle"
        /\ Found(db[j])
        /\ db[j].status = "analyzing"
        /\ db[j].progress = 100
        /\ db[j].current_step = "analysis"

\* progress of a session and of a row is a percent; the reports a handler
\* under way can make are percents in non-decreasing order
C26_Percent ==
    /\ \A j \in Jobs : Found(db[j]) => db[j].progress \in 0..100
    /\ \A w \in Workers :
          Found(project[w]) =>
              /\ project[w].progress \in 0..100
              /\ (pc[w] = "handler" /\ HasHandler(CurStep(w))) =>
                    \A br \in Branches(CurStep(w)) :
                        LET script == HandlerScript(CurStep(w), project[w], br)
                        IN \A i \in 1..Len(script) :
                               /\ script[i].progress \in 0..100
                               /\ i > 1 => script[i - 1].progress <= script[i].progress

\* run_step resets progress to 0 in the step that sets current_step, and no
\* other step of a run lowers it
C26_Reset ==
    \A w \in Workers :
        (Found(project[w]) /\ Found(project'[w])) =>
            /\ (pc[w] \in {"loop", "step"} /\ pc'[w] = "handler") =>
                  /\ project'[w].progress = 0
                  /\ project'[w].current_step = CurStep(w)'
            /\ project'[w].progress < project[w].progress =>
                  /\ pc[w] \in {"loop", "step"} /\ pc'[w] = "handler"
                  /\ project'[w].progress = 0

\* C26: during a run progress is an integer in 0..100, is reset to 0
\* exactly when run_step sets current_step, and does not decrease from that
\* reset to the end of the stage.
C26_ProgressWithinStage == []C26_Percent /\ [][C26_Reset]_vars

\* The second stage of a run starts: progress goes from 100 back to 0
C26_Witness ==
    \E w \in FullRuns :
        /\ pc[w] = "handler"
        /\ Len(calls[w]) >= 2
        /\ project[w].progress = 0
        /\ project[w].current_step = calls[w][Len(calls[w])]
        /\ db[task[w].job].progress = 0

\* A call of the progress callback leaves the row of the job as it is and
\* sets progress in memory
C27_ReportStep ==
    (stage.pc = "handler" /\ stage'.pc = "handler") =>
        /\ stage'.row = stage.row
        /\ stage'.n = stage.n + 1
        /\ stage'.mem.progress
              = HandlerScript(stage.step, stage.mem, stage.br)[stage'.n].progress
        /\ Len(stage'.events) = Len(stage.events) + 1

\* From the commit that starts the stage to the commit that ends it the
\* persisted progress is 0
C27_PolledProgress ==
    (stage.pc = "handler") =>
        /\ stage.row.progress = 0
        /\ stage.row.current_step = stage.step

C28_FromTheStart ==
    \A w \in FullRuns :
        /\ (pc[w] = "loop" /\ calls[w] = <<>>) => idx[w] = 1
        /\ calls[w] # <<>> => calls[w][1] = ExpectedCalls(project[w])[1]

\* A handler is invoked only by a run under way that has not failed; a
\* worker gets a run only from the head of the broker queue; the queue grows
\* only with a trigger request
C28_OnlyWhenEnqueued ==
    /\ \A w \in Pool :
          Len(calls'[w]) > Len(calls[w]) =>
              /\ task[w] # NoTask /\ task'[w] = task[w]
              /\ result[w] = "running"
    /\ \A w \in Pool :
          (pc[w] = "idle" /\ pc'[w] # "idle") =>
              /\ queue # <<>>
              /\ task'[w] = Head(queue)
    /\ Len(queue') > Len(queue) =>
          /\ requests' = requests + 1
          /\ queue' = Append(queue, queue'[Len(queue')])

\* C28: the orchestrator never resumes: every full run begins at the first
\* stage of the fixed order that is not skipped, whatever status and
\* current_step of the job are, and a job in ERROR runs no stage until a
\* full run or a single step is enqueued for it.
C28_NoResume == []C28_FromTheStart /\ [][C28_OnlyWhenEnqueued]_vars

\* A job failed in SYNTHESIS and was started again: the run, which loaded
\* status ERROR, executes ANALYSIS
C28_Witness ==
    \E w \in FullRuns :
        /\ pc[w] = "handler"
        /\ calls[w] = <<"analysis">>
        /\ project[w].status = "error"
        /\ \E e \in ErrTexts : project[w].error_message = ErrorMessage("synthesis", e)

\* The id a turn of the batch loop is about, given to exactly one list
C29_Placed(list) ==
    /\ batch'.started = IF list = "started" THEN Append(batch.started, batch.ids[batch.i])
                        ELSE batch.started
    /\ batch'.skipped = IF list = "skipped" THEN Append(batch.skipped, batch.ids[batch.i])
                        ELSE batch.skipped
    /\ batch'.errors = IF list = "errors" THEN Append(batch.errors, batch.ids[batch.i])
                       ELSE batch.errors

\* A turn of the loop, judged on the job as persisted when the turn begins
C29_Turn ==
    (batch # NoBatch /\ batch' # NoBatch /\ batch' # batch /\ batch.pc = "loop") =>
        LET id == batch.ids[batch.i]
            row == Row(id)
        IN  IF ~Found(row)
            THEN C29_Placed("errors") /\ queue' = queue /\ db' = db
            ELSE IF ~row.instrumental_filename \/ row.status \in RunningStatuses
            THEN C29_Placed("skipped") /\ queue' = queue /\ db' = db
            ELSE \/ /\ queue' = Append(queue, FullTask(id))
                    /\ batch'.pc = "commit"
                    /\ C29_Placed("none")
                 \/ C29_Placed("errors") /\ queue' = queue /\ db' = db

\* The turn of an enqueued id ends with the job ANALYZING at progress 0
C29_Started ==
    (batch # NoBatch /\ batch' # batch /\ batch.pc = "commit") =>
        /\ C29_Placed("started")
        /\ queue' = queue
        /\ db'[batch.ids[batch.i]].status = "analyzing"
        /\ db'[batch.ids[batch.i]].progress = 0

\* The answer holds the three lists, one entry for each requested id
C29_Answer ==
    (response = NoResponse /\ response' # NoResponse /\ response'.route = "batch") =>
        /\ response'.started = batch.started
        /\ response'.skipped = batch.skipped
        /\ response'.errors = batch.errors
        /\ Len(response'.started) + Len(response'.skipped) + Len(response'.errors)
             = Len(response'.ids)
        /\ UNCHANGED <<db, queue>>

\* C29: batch_start places each requested id in exactly one of started,
\* skipped and errors: an unknown id in errors; a job without an uploaded
\* instrumental, or SYNTHESIZING, REFINING or MIXING, in skipped, with no
\* task enqueued and no field changed; any other job has a full-pipeline
\* task enqueued, becomes ANALYZING at progress 0 and goes to started, or,
\* when the enqueue fails, goes to errors unchanged; an empty request is
\* answered with three empty lists.
C29_BatchStart == [][C29_Turn /\ C29_Started /\ C29_Answer]_vars

C29_Witness ==
    /\ response # NoResponse
    /\ response.route = "batch"
    /\ response.started = <<"j1">>
    /\ response.errors = <<"j0">>

\* An answer of start_pipeline, run_pipeline_step or get_pipeline_status
C30_Answered ==
    /\ response = NoResponse
    /\ response' # NoResponse
    /\ response'.route \in {"start", "step", "status"}

\* On an id db.get does not find the answer is 404 and nothing changes
C30_UnknownId ==
    (C30_Answered /\ ~Found(Row(response'.id))) =>
        /\ response' = NotFound(response'.route, response'.id)
        /\ UNCHANGED <<ovars, batch>>

\* No route enqueues a task or opens a trigger request for such an id
C30_KnownOnly ==
    /\ Len(queue') > Len(queue) => Found(Row(queue'[Len(queue')].job))
    /\ (req' # req /\ req' # NoReq) => Found(Row(req'.job))

\* On a job that exists get_pipeline_status answers the persisted fields
C30_Status ==
    (C30_Answered /\ response'.route = "status" /\ Found(Row(response'.id))) =>
        /\ response'.code = 200
        /\ response'.status = db[response'.id].status
        /\ response'.current_step = db[response'.id].current_step
        /\ response'.progress = db[response'.id].progress
        /\ response'.error_message = db[response'.id].error_message
        /\ UNCHANGED <<ovars, batch>>

\* C30: on an unknown job id start_pipeline, run_pipeline_step and
\* get_pipeline_status answer NotFound (404), enqueue no task and change no
\* state; on an existing job get_pipeline_status returns the persisted
\* status, current_step, progress and error_message and modifies nothing.
C30_NotFoundAndStatus == [][C30_UnknownId /\ C30_KnownOnly /\ C30_Status]_vars

C30_Witness ==
    /\ response = NotFound("start", "j0")
    /\ \E w \in Workers : pc[w] = "handler"

C30_WitnessStatus ==
    /\ response # NoResponse
    /\ response.route = "status"
    /\ response.code = 200
    /\ response.status = "synthesizing"
    /\ response.current_step = "synthesis"
    /\ response.progress = 100

\* The pool processes that are executing a task
Executing == {w \in Pool : task[w] # NoTask}

C32_Inserted(k) == ~Found(db[k]) /\ Found(db'[k])

\* The new record has the initial fields and an id no record had, and
\* every other record is as it was
C32_Fresh ==
    \A k \in ProjectIds :
        C32_Inserted(k) =>
            /\ db[k] = NoJob
            /\ db'[k].status = "created"
            /\ db'[k].current_step = NoValue
            /\ db'[k].progress = 0
            /\ db'[k].error_message = <<>>
            /\ \A j \in ProjectIds \ {k} : db'[j] = db[j]

\* A deleted id has no record from then on, and get_project answers 404
C32_Deleted ==
    \A j \in ProjectIds :
        /\ (Found(db[j]) /\ ~Found(db'[j])) => db'[j] = Deleted
        /\ db[j] = Deleted =>
            /\ db'[j] = Deleted
            /\ (response' # response /\ response' # NoResponse /\ response'.id = j)
                  => response' = NotFound("project", j)

\* C32: a Job Record created by create_project or duplicate_project starts
\* with status CREATED, current_step unset, progress 0 and no
\* error_message, under a fresh id different from every existing id;
\* duplicating leaves the original record unchanged, and after
\* delete_project the id resolves to NotFound.
C32_RecordLifecycle == [][C32_Fresh /\ C32_Deleted]_vars

\* A duplicate of a project whose upload analysis failed
C32_Witness ==
    /\ Found(db["j1"]) /\ Found(db["j2"])
    /\ db["j1"].status = "error"
    /\ db["j1"].error_message # <<>>
    /\ db["j1"].lyrics
    /\ db["j2"].status = "created"
    /\ db["j2"].lyrics

C32_WitnessDeleted == response = NotFound("project", "j1") /\ db["j1"] = Deleted

\* C33: an event published on the channel of job X is sent only to
\* connections registered under X, never to a connection registered only
\* under a different job Y.
C33_JobIsolation ==
    \A ws \in Sockets :
        \A i \in 1..Len(received[ws]) :
            /\ endpoint[ws].state # "none"
            /\ received[ws][i].job = endpoint[ws].job
            /\ ProjectIdOf(received[ws][i].channel) = endpoint[ws].job

\* An observer of another job is connected and alive all along and gets
\* nothing of what an observer of the job received
C33_Witness ==
    \E v, w \in Sockets :
        /\ endpoint[v].state = "open" /\ endpoint[w].state = "open"
        /\ endpoint[w].alive
        /\ endpoint[v].job # endpoint[w].job
        /\ Len(received[v]) >= 2
        /\ received[w] = <<>>
        /\ Registered(connections, endpoint[w].job) = <<w>>

\* The run's REFINEMENT returned early: progress(50, ...) is reported by
\* the early return alone (orchestrator.py line 469)
C34_RefinementBypassed(w) ==
    Event("refinement", 50, "processing") \in Range(published[w])

\* The run's MIX went through svc.mix: progress(90, ...) follows it (line 523)
C34_MixProduced(w) ==
    Event("mix", 90, "processing") \in Range(published[w])

\* C34: a job whose status is COMPLETED after run_full_pipeline has a final
\* mix artifact produced by that run: the run never ends COMPLETED when
\* REFINEMENT or MIX returned early because the vocal or instrumental input
\* was missing.
C34_CompletedHasMix ==
    \A w \in FullRuns :
        (result[w] = "completed" /\ project[w].status = "completed") =>
            /\ C34_MixProduced(w)
            /\ ~C34_RefinementBypassed(w)

\* A completed run whose REFINEMENT and MIX both did their work
C34_Witness ==
    \E w \in FullRuns :
        /\ result[w] = "completed"
        /\ db[task[w].job].status = "completed"
        /\ C34_MixProduced(w)
        /\ ~C34_RefinementBypassed(w)

\* start_pipeline or quick_start returns: its commit ends the request
C35_Returns ==
    /\ req # NoReq
    /\ req.kind \in {"start", "quick"}
    /\ req' = NoReq

\* C35: if start_pipeline or quick_start returns successfully with the job
\* in status ANALYZING, a full-pipeline task for that job has been
\* enqueued; when enqueueing fails the job is not moved to ANALYZING.
C35_AnalyzingMeansEnqueued ==
    [][C35_Returns => (db'[req.job].status = "analyzing" => req.queued)]_vars

\* A request that has enqueued its task is about to commit ANALYZING
C35_Witness ==
    /\ req # NoReq
    /\ req.kind = "start"
    /\ req.queued
    /\ FullTask(req.job) \in Range(queue)
    /\ db[req.job].status = "melody_ready"

\* The order of the statuses along a full run
C36_Rank(s) ==
    CASE s = "analyzing" -> 1
      [] s = "melody_ready" -> 2
      [] s = "synthesizing" -> 3
      [] s = "refining" -> 4
      [] s = "mixing" -> 5
      [] s = "completed" -> 6
      [] OTHER -> 0

\* What a full run persists as status, from the status it found at its start
C36_Forward(w) ==
    (task[w].kind = "full" /\ Found(project[w]) /\ Found(project'[w])
        /\ project'[w].status # project[w].status) =>
        /\ project[w].status \notin {"completed", "error"}
        /\ \/ project'[w].status = "error"
           \/ C36_Rank(project'[w].status) > C36_Rank(project[w].status)

\* C36: within one full-pipeline run the persisted status only moves
\* forward along ANALYZING, MELODY_READY, SYNTHESIZING, REFINING, MIXING,
\* COMPLETED or jumps to ERROR; it never moves backwards, and COMPLETED and
\* ERROR are terminal for the run.
C36_StatusForward == [][\A w \in Workers : C36_Forward(w)]_vars

\* A run that began at ANALYZING has reached MIXING
C36_Witness ==
    \E w \in FullRuns :
        /\ pc[w] = "loop"
        /\ calls[w] = <<"analysis", "melody", "synthesis", "refinement", "mix">>
        /\ project[w].status = "mixing"
        /\ db[task[w].job].status = "mixing"

\* run_pipeline_step answers 400: a prerequisite is missing, and nothing
\* is enqueued or changed
C37_Rejected ==
    (response = NoResponse /\ response' # NoResponse /\ response'.route = "step"
        /\ response'.code = 400) =>
        /\ ~Prerequisite(response'.step, db[response'.id])
        /\ UNCHANGED <<ovars, batch>>

\* run_pipeline_step goes on to the enqueue: the prerequisite is there and
\* one single-step task is enqueued
C37_Enqueued ==
    (req = NoReq /\ req' # NoReq /\ req'.kind = "step") =>
        /\ Prerequisite(req'.step, db[req'.job])
        /\ queue' = Append(queue, StepTask(req'.job, req'.step))

\* run_pipeline_step returns: current_step = step and progress = 0 are
\* persisted
C37_Persisted ==
    (req # NoReq /\ req.kind = "step" /\ req' = NoReq) =>
        /\ db'[req.job].current_step = req.step
        /\ db'[req.job].progress = 0
        /\ queue' = queue

\* C37: through the run_pipeline_step route, when a prerequisite field of
\* the requested step is missing (ANALYSIS: instrumental_filename; MELODY:
\* bpm; SYNTHESIS: lyrics) the request is rejected, no task is enqueued and
\* current_step and progress are unchanged; otherwise exactly one
\* single-step task is enqueued and current_step = step, progress = 0 are
\* persisted.
C37_EnqueueStep == [][C37_Rejected /\ C37_Enqueued /\ C37_Persisted]_vars

\* A rejected request for SYNTHESIS on a job without lyrics
C37_Witness ==
    /\ response # NoResponse
    /\ response.route = "step"
    /\ response.code = 400
    /\ response.step = "synthesis"
    /\ db[response.id].bpm

\* An accepted request has enqueued its task and is about to commit
C37_WitnessAccepted ==
    /\ req # NoReq
    /\ req.kind = "step"
    /\ req.step = "melody"
    /\ StepTask(req.job, "melody") \in Range(queue)

\* The _redis_subscriber task is running or sleeping
C38_Active == sub \in {"starting", "listening", "sending", "backoff"}

\* C38: at most one relay subscriber task is active per registry at any
\* time - start_redis_subscriber is idempotent, also when called by new
\* observer connections during the error backoff and across the restart -
\* so each published event is sent at most once to each registered
\* connection.
C38_OneSubscriber ==
    /\ subscriber_tasks <= 1
    /\ C38_Active <=> subscriber_tasks = 1
    /\ \A ws \in Sockets :
         \A i, k \in 1..Len(received[ws]) :
             received[ws][i] = received[ws][k] => i = k

\* An observer connected during the backoff, and one that was there before
C38_Witness ==
    /\ sub = "backoff"
    /\ subscriber_tasks = 1
    /\ \E v, w \in Sockets :
         /\ endpoint[v].state = "open" /\ endpoint[w].state = "open"
         /\ endpoint[v].job = endpoint[w].job
         /\ received[v] # <<>>
         /\ Registered(connections, endpoint[v].job) = <<v, w>>
         /\ Len(received[w]) < Len(received[v])

\* A connection is registered only under the job of its endpoint handler,
\* and only while that handler has connected and not ended
C39_RegisteredWhileOpen ==
    \A ws \in Sockets, j \in Channels :
        ws \in RegisteredSet(connections, j) =>
            /\ endpoint[ws].state = "open"
            /\ endpoint[ws].job = j

\* The handler of ws ends in this step
C39_Ends(ws) == endpoint[ws].state = "open" /\ endpoint'[ws].state = "ended"

\* The handler that ends leaves its connection unregistered, the other
\* connections where they are, and a registry without the connection as it is
C39_Disconnected ==
    \A ws \in Sockets :
        C39_Ends(ws) =>
            /\ \A j \in Channels : ws \notin RegisteredSet(connections', j)
            /\ \A v \in Sockets \ {ws}, j \in Channels :
                 v \in RegisteredSet(connections', j) <=> v \in RegisteredSet(connections, j)
            /\ (\A j \in Channels : ws \notin RegisteredSet(connections, j))
                 => connections' = connections

\* send_to_project ends with the disconnect of connections that are not
\* registered any more: the registry stays as it is
C39_PruneOfUnregistered ==
    (sub = "sending" /\ sub' = "listening"
        /\ \A ws \in Range(delivery.dead) : ws \notin RegisteredSet(connections, delivery.job))
        => connections' = connections

\* C39: a connection is in the registry only between a successful connect
\* and the end of its endpoint handler; once the handler ends (client
\* disconnect or any other exception) the connection is no longer
\* registered under its job, and disconnect of a connection that is not
\* registered (e.g. already pruned by deliver) is a no-op that leaves the
\* registry unchanged.
C39_ObserverLifecycle ==
    /\ []C39_RegisteredWhileOpen
    /\ [][C39_Disconnected /\ C39_PruneOfUnregistered]_vars

\* The handler of a connection that deliver had pruned has ended, with
\* another observer of the job still registered
C39_Witness ==
    \E v, w \in Sockets :
        /\ endpoint[v].state = "ended"
        /\ endpoint[w].state = "open"
        /\ endpoint[v].job = endpoint[w].job
        /\ Registered(connections, endpoint[w].job) = <<w>>
        /\ Len(received[w]) > Len(received[v])
        /\ received[v] # <<>>

\* A connection pruned by deliver whose handler has not ended yet
C39_WitnessPruned ==
    \E v \in Sockets :
        /\ endpoint[v].state = "open"
        /\ ~endpoint[v].alive
        /\ v \notin RegisteredSet(connections, endpoint[v].job)
        /\ delivery = NoDelivery

====
